---- MODULE Spec2Model ----
(***************************************************************************)
(* Model of the button behaviour layer of src/script.js (ButtonSystem).    *)
(*                                                                         *)
(* Widgets are DOM elements addressed by identity.  Their attributes are   *)
(* functions over Widgets.  The three module-level side tables of the      *)
(* source (buttonTimeouts, buttonOriginalContent) and the browser's table  *)
(* of pending timers are state.  Every handler of the source is an         *)
(* operator from a state record to a state record, so that one input       *)
(* event can run several controllers in the order _handleEvent runs them;  *)
(* an action applies one handler to the current state and commits it.      *)
(***************************************************************************)
EXTENDS Integers, Sequences, FiniteSets, TLC

(***************************************************************************)
(* Bounds and universes.                                                   *)
(***************************************************************************)
\* the widgets of the document (and of the host's detached fragments)
Widgets == {"A", "B", "C"}

\* the activeButton argument null / undefined
NoWidget == "null"

\* an argument that is an object but no HTMLElement
NotAnElement == "notAnElement"

\* the most timers (setTimeout calls of the loading and auto-disable
\* behaviours) one behaviour of the model starts
MaxTimerId == 4

\* the most announcement timers pending at one time
MaxAnnounce == 1

\* the widgets the loading specification operates on
LoadingWidgets == {"A"}

\* markup values a widget's innerHTML takes
Markups == {"m0", "m1"}

\* the dropdown containers (.btn-dropdown) of the document
Dropdowns == {"D1", "D2"}

\* document.body: where focus is when no element has it, and a click target
\* that no widget and no dropdown encloses
Body == "body"

\* dropdown.querySelector(SELECTORS.dropdownTrigger): each dropdown has one
\* trigger and one menu
trigger == [d \in Dropdowns |-> IF d = "D1" THEN "D1.trigger" ELSE "D2.trigger"]

\* the item elements (.btn-dropdown__item) the host puts into each menu, in
\* document order; the menu holds a prefix of them (menuSize)
menuItems ==
    [d \in Dropdowns |->
        IF d = "D1" THEN <<"D1.item0", "D1.item1", "D1.item2">> ELSE <<"D2.item0">>]

\* the data-value attribute of the items, <<>> for an item without one, and
\* the text of the items, each the sequence of its characters
dataValue ==
    [item \in {"D1.item0", "D1.item1", "D1.item2", "D2.item0"} |->
        IF item = "D1.item0" THEN <<"s", "m">> ELSE <<>>]

textContent ==
    [item \in {"D1.item0", "D1.item1", "D1.item2", "D2.item0"} |->
        IF item = "D1.item1" THEN <<" ", "L", "g", " ">>
        ELSE IF item = "D1.item2" THEN <<>>
        ELSE <<"X", "l">>]

\* the most announce timers pending at one time when operations are called in
\* quick succession
MaxAnnounceBurst == 2

\* the most requestAnimationFrame callbacks pending at one time
MaxFrames == 1

\* the most focus timers pending at one time
MaxFocus == 1

DEFAULTS ==
    [loadingDuration |-> 2000, disableDuration |-> 3000,
     minDuration |-> 100, maxDuration |-> 30000, cacheMaxAge |-> 5000]

\* Date.now() advances in steps of half the freshness window, up to MaxNow
TickMs == DEFAULTS.cacheMaxAge \div 2

MaxNow == 7500

(***************************************************************************)
(* Strings are sequences of one-character strings, so that the whitelist   *)
(* test is computed character by character as the regular expression does. *)
(***************************************************************************)
Letters == {"a", "b", "e", "i", "s", "z", "A", "Z"}

Digits == {"0", "9"}

\* VALID_GROUP_NAME = /^[a-zA-Z0-9_-]+$/
VALID_GROUP_NAME(name) ==
    /\ Len(name) >= 1
    /\ \A i \in 1..Len(name) : name[i] \in Letters \cup Digits \cup {"_", "-"}

\* faulty variant: the whitelist test is skipped
isValidGroupName_NoCheck(name) == TRUE

isValidGroupName(name) == VALID_GROUP_NAME(name)

\* group names the model draws from: "size", "a b" (the spec's invalid name),
\* and the empty string
NameSize == <<"s", "i", "z", "e">>

NameSpace == <<"a", " ", "b">>

NameEmpty == <<>>

GroupNames == {NameSize, NameSpace, NameEmpty}

\* getAttribute(data-toggle-group): <<>> is null (attribute absent), <<n>> is
\* the attribute present with value n
GroupAttrs == {<<>>} \cup {<<n>> : n \in GroupNames}

\* JavaScript truthiness of a getAttribute result: null and "" are falsy
Truthy(attr) == attr # <<>> /\ attr[1] # <<>>

\* String(boolean)
String(b) == IF b THEN "true" ELSE "false"

(***************************************************************************)
(* Durations.  parseInt(value, 10) skips leading white space, reads an     *)
(* optional sign and the longest run of decimal digits, and ignores what   *)
(* follows; without a digit the result is NaN.  <<>> is NaN, <<n>> is the  *)
(* number n.                                                               *)
(***************************************************************************)
DecimalDigits == <<"0", "1", "2", "3", "4", "5", "6", "7", "8", "9">>

IsDigit(c) == \E i \in 1..Len(DecimalDigits) : DecimalDigits[i] = c

DigitValue(c) == (CHOOSE i \in 1..Len(DecimalDigits) : DecimalDigits[i] = c) - 1

RECURSIVE trimStart(_)
trimStart(str) ==
    IF str # <<>> /\ Head(str) = " " THEN trimStart(Tail(str)) ELSE str

\* the value of the longest run of digits str starts with, read after acc
RECURSIVE readDigits(_, _)
readDigits(str, acc) ==
    IF str # <<>> /\ IsDigit(Head(str))
    THEN readDigits(Tail(str), 10 * acc + DigitValue(Head(str)))
    ELSE acc

parseInt(value) ==
    LET str == trimStart(value)
        signed == str # <<>> /\ Head(str) \in {"-", "+"}
        body == IF signed THEN Tail(str) ELSE str
    IN  IF body = <<>> \/ ~IsDigit(Head(body)) THEN <<>>
        ELSE IF signed /\ Head(str) = "-" THEN <<0 - readDigits(body, 0)>>
        ELSE <<readDigits(body, 0)>>

Min(a, b) == IF a <= b THEN a ELSE b

Max(a, b) == IF a >= b THEN a ELSE b

clamp(value, min, max) == Min(Max(value, min), max)

\* faulty variant: the parsed value is not clamped
parseDuration_NoClamp(value, defaultValue) ==
    IF ~Truthy(value) THEN defaultValue
    ELSE LET parsed == parseInt(value[1])
         IN  IF parsed = <<>> \/ parsed[1] < 0 THEN defaultValue
             ELSE parsed[1]

\* value: <<>> is null (attribute absent), <<str>> the attribute's value
parseDuration(value, defaultValue) ==
    IF ~Truthy(value) THEN defaultValue
    ELSE LET parsed == parseInt(value[1])
         IN  IF parsed = <<>> \/ parsed[1] < 0 THEN defaultValue
             ELSE clamp(parsed[1], DEFAULTS.minDuration, DEFAULTS.maxDuration)

VARIABLES
    attrs,                  \* markers authored by the host (never written)
    attached,               \* element.isConnected, of widgets and dropdown containers
    menuSize,               \* how many of menuItems[d] the menu of d holds
    ariaPressed,            \* aria-pressed: "absent", "true", "false"
    ariaExpanded,           \* aria-expanded of a widget: "absent", "true", "false"
    loadingClass,           \* classList contains btn--loading
    ariaBusy,               \* aria-busy: "absent", "true", "false"
    disabled,               \* the native disabled property
    ariaDisabled,           \* aria-disabled = "true"
    innerHTML,              \* the widget's markup
    buttonTimeouts,         \* WeakMap button -> timer id, 0: no entry
    buttonOriginalContent,  \* WeakMap button -> snapshot, <<>>: no entry
    timers,                 \* the browser's pending loading/auto-disable timers
    nextTimerId,            \* the id the next setTimeout returns
    pendingSignals,         \* timer ids of the setLoading promises not yet resolved
    liveRegion,             \* the live region's textContent
    announceQ,              \* messages of the pending announce timers, oldest first
    initialized,            \* this._initialized
    listening,              \* the document's click and keydown listeners are attached
    triggerExpanded,        \* aria-expanded of the trigger: "absent", "true", "false"
    dropdownExpanded,       \* aria-expanded of the container
    menuPosition,           \* data-position of the menu: "absent", "end", "top", "end top"
    openDropdowns,          \* this._openDropdowns
    activeElement,          \* document.activeElement
    frameQ,                 \* dropdowns of the pending animation-frame callbacks, oldest first
    focusQ,                 \* items of the pending focus timers, oldest first
    dropdownItemCache,      \* WeakMap menu -> {items, timestamp}, <<>>: no entry
    now,                    \* Date.now()
    \* history variables
    lastOp,                 \* the operation of the last step
    emitted,                \* events dispatched by the last step, in order
    invoked,                \* controllers _handleEvent invoked in the last step
    dismissed,              \* the outside-click dismissal of the last step: <<>> (none)
                            \* or <<n>>, it ran when n controllers had been invoked
    lookup,                 \* the item lookup of the last step: <<>> (none) or
                            \* <<[menu, items]>>, the list _getDropdownItems returned
    signal,                 \* the promise setLoading returned in the last step: "none"
                            \* (no call), "pending", "TypeError" (rejected)
    preLoad,                \* markup/disabled the widget had before its latest loading session
    completes,              \* loadingComplete events on the widget since its latest
                            \* loading session began: 0, 1, or 2 for two or more
    restarted               \* a countdown was started on the widget while it was loading,
                            \* in its latest loading session

vars == <<attrs, attached, menuSize, ariaPressed, ariaExpanded, loadingClass, ariaBusy,
          disabled, ariaDisabled, innerHTML, buttonTimeouts,
          buttonOriginalContent, timers, nextTimerId, pendingSignals,
          liveRegion, announceQ, initialized, listening, triggerExpanded,
          dropdownExpanded, menuPosition, openDropdowns, activeElement,
          frameQ, focusQ, dropdownItemCache, now, lastOp, emitted, invoked,
          dismissed, lookup, signal, preLoad, completes, restarted>>

(***************************************************************************)
(* The state record the handlers transform.                                *)
(***************************************************************************)
Cur ==
    [ ariaPressed |-> ariaPressed, ariaExpanded |-> ariaExpanded,
      loadingClass |-> loadingClass,
      ariaBusy |-> ariaBusy, disabled |-> disabled,
      ariaDisabled |-> ariaDisabled, innerHTML |-> innerHTML,
      buttonTimeouts |-> buttonTimeouts,
      buttonOriginalContent |-> buttonOriginalContent,
      timers |-> timers, nextTimerId |-> nextTimerId,
      pendingSignals |-> pendingSignals,
      liveRegion |-> liveRegion, announceQ |-> announceQ,
      initialized |-> initialized, listening |-> listening,
      triggerExpanded |-> triggerExpanded,
      dropdownExpanded |-> dropdownExpanded, menuPosition |-> menuPosition,
      openDropdowns |-> openDropdowns, activeElement |-> activeElement,
      frameQ |-> frameQ, focusQ |-> focusQ,
      dropdownItemCache |-> dropdownItemCache, now |-> now,
      emitted |-> <<>>, invoked |-> <<>>, signal |-> "none",
      lookup |-> <<>>, dismissed |-> <<>>,
      preLoad |-> preLoad, completes |-> completes, restarted |-> restarted ]

\* the step to the state s, with at most maxAnnounce announce timers pending
CommitUpTo(s, maxAnnounce) ==
    /\ s.nextTimerId <= MaxTimerId + 1
    /\ Len(s.announceQ) <= maxAnnounce
    /\ Len(s.frameQ) <= MaxFrames
    /\ Len(s.focusQ) <= MaxFocus
    /\ s.now <= MaxNow
    /\ initialized' = s.initialized
    /\ listening' = s.listening
    /\ triggerExpanded' = s.triggerExpanded
    /\ dropdownExpanded' = s.dropdownExpanded
    /\ menuPosition' = s.menuPosition
    /\ openDropdowns' = s.openDropdowns
    /\ activeElement' = s.activeElement
    /\ frameQ' = s.frameQ
    /\ focusQ' = s.focusQ
    /\ dropdownItemCache' = s.dropdownItemCache
    /\ now' = s.now
    /\ ariaPressed' = s.ariaPressed
    /\ ariaExpanded' = s.ariaExpanded
    /\ loadingClass' = s.loadingClass
    /\ ariaBusy' = s.ariaBusy
    /\ disabled' = s.disabled
    /\ ariaDisabled' = s.ariaDisabled
    /\ innerHTML' = s.innerHTML
    /\ buttonTimeouts' = s.buttonTimeouts
    /\ buttonOriginalContent' = s.buttonOriginalContent
    /\ timers' = s.timers
    /\ nextTimerId' = s.nextTimerId
    /\ pendingSignals' = s.pendingSignals
    /\ liveRegion' = s.liveRegion
    /\ announceQ' = s.announceQ
    /\ emitted' = s.emitted
    /\ invoked' = s.invoked
    /\ dismissed' = s.dismissed
    /\ signal' = s.signal
    /\ lookup' = s.lookup
    /\ preLoad' = s.preLoad
    /\ completes' = s.completes
    /\ restarted' = s.restarted

Commit(s) == CommitUpTo(s, MaxAnnounce)

(***************************************************************************)
(* Utilities.                                                              *)
(***************************************************************************)
\* String.prototype.trim, on a string given as the sequence of its characters
RECURSIVE trimEnd(_)
trimEnd(str) ==
    IF str # <<>> /\ str[Len(str)] = " " THEN trimEnd(SubSeq(str, 1, Len(str) - 1)) ELSE str

trim(str) == trimEnd(trimStart(str))

\* faulty variant: the detachment check is skipped
isElementConnected_Always(element) == TRUE

\* Array.prototype.indexOf, with JavaScript's indices: 0 is the first
\* element, -1 is "not found"
indexOf(items, element) ==
    IF \E i \in 1..Len(items) : items[i] = element
    THEN (CHOOSE i \in 1..Len(items) :
              items[i] = element /\ \A j \in 1..(i - 1) : items[j] # element) - 1
    ELSE -1

\* target.closest(SELECTORS.dropdown): the dropdown whose trigger or item the
\* element is, the dropdown container a widget stands in, null for a widget
\* outside every dropdown and for the body
closestDropdown(target) ==
    IF target \in Widgets THEN attrs[target].dropdown
    ELSE IF \E d \in Dropdowns :
           target = d \/ target = trigger[d] \/ indexOf(menuItems[d], target) >= 0
    THEN CHOOSE d \in Dropdowns :
           target = d \/ target = trigger[d] \/ indexOf(menuItems[d], target) >= 0
    ELSE NoWidget

\* menu.querySelectorAll(SELECTORS.dropdownItem): the items the menu holds now
querySelectorAllItems(d) == SubSeq(menuItems[d], 1, menuSize[d])

\* element && element.isConnected.  Widgets and dropdown containers are
\* attached or detached by the host; a trigger and a menu are attached with
\* their dropdown; an item is attached while its menu holds it
isElementConnected(element) ==
    IF element \in Widgets
    THEN attached[element]
         /\ (attrs[element].dropdown # NoWidget => attached[attrs[element].dropdown])
    ELSE IF element \in Dropdowns THEN attached[element]
    ELSE IF element = Body THEN TRUE
    ELSE IF closestDropdown(element) = NoWidget THEN FALSE
    ELSE /\ attached[closestDropdown(element)]
         /\ \/ element = trigger[closestDropdown(element)]
            \/ indexOf(querySelectorAllItems(closestDropdown(element)), element) >= 0

\* element.focus(): a detached element cannot take focus
focus(s, element) ==
    IF isElementConnected(element) THEN [s EXCEPT !.activeElement = element] ELSE s

\* element.dispatchEvent(new CustomEvent(eventName, {detail}))
\* detail: <<>> for {}, <<b>> for {pressed: b}
_dispatchEvent(s, element, eventName, detail) ==
    [s EXCEPT
        !.emitted = Append(@, [target |-> element, name |-> eventName, detail |-> detail]),
        !.completes = IF eventName = "loadingComplete"
                      THEN [@ EXCEPT ![element] = IF @ = 0 THEN 1 ELSE 2]
                      ELSE @]

\* document.querySelectorAll('[data-toggle-group="name"]'): the attached
\* widgets whose attribute equals the name
querySelectorAllGroup(name) ==
    {w \in Widgets : attached[w] /\ attrs[w].toggleGroup = <<name>>}

(***************************************************************************)
(* Toggle controller.                                                      *)
(***************************************************************************)
\* faulty variant: the other members of the group are not cleared
_handleToggle_NoClear(s, button) ==
    LET toggleGroup == attrs[button].toggleGroup
        isPressed == s.ariaPressed[button] = "true"
        s1 == IF Truthy(toggleGroup)
              THEN [s EXCEPT !.ariaPressed[button] = "true"]
              ELSE [s EXCEPT !.ariaPressed[button] = String(~isPressed)]
    IN  IF Truthy(toggleGroup) /\ ~isValidGroupName(toggleGroup[1])
        THEN s
        ELSE _dispatchEvent(s1, button, "toggle", <<s1.ariaPressed[button] = "true">>)

\* faulty variant: the event is dispatched for an invalid group name too
_handleToggle_EventOnInvalid(s, button) ==
    LET toggleGroup == attrs[button].toggleGroup
        isPressed == s.ariaPressed[button] = "true"
        groupButtons == querySelectorAllGroup(toggleGroup[1])
        s1 == IF Truthy(toggleGroup)
              THEN IF ~isValidGroupName(toggleGroup[1])
                   THEN s
                   ELSE [s EXCEPT !.ariaPressed =
                           [w \in Widgets |->
                               IF w = button THEN "true"
                               ELSE IF w \in groupButtons THEN "false"
                               ELSE @[w]]]
              ELSE [s EXCEPT !.ariaPressed[button] = String(~isPressed)]
    IN  _dispatchEvent(s1, button, "toggle", <<s1.ariaPressed[button] = "true">>)

_handleToggle(s, button) ==
    LET toggleGroup == attrs[button].toggleGroup
        isPressed == s.ariaPressed[button] = "true"
        groupButtons == querySelectorAllGroup(toggleGroup[1])
        s1 == IF Truthy(toggleGroup)
              THEN [s EXCEPT !.ariaPressed =
                      [w \in Widgets |->
                          IF w = button THEN "true"
                          ELSE IF w \in groupButtons THEN "false"
                          ELSE @[w]]]
              ELSE [s EXCEPT !.ariaPressed[button] = String(~isPressed)]
    IN  IF Truthy(toggleGroup) /\ ~isValidGroupName(toggleGroup[1])
        THEN s
        ELSE _dispatchEvent(s1, button, "toggle", <<s1.ariaPressed[button] = "true">>)

setPressed(s, button, pressed) ==
    IF button = NoWidget THEN s
    ELSE LET newState == pressed
             s1 == [s EXCEPT !.ariaPressed[button] = String(newState)]
         IN  _dispatchEvent(s1, button, "toggle", <<newState>>)

\* faulty variant: the members other than activeButton are left as they are
setGroupValue_KeepOthers(s, groupName, activeButton) ==
    IF ~isValidGroupName(groupName) THEN s
    ELSE LET groupButtons == querySelectorAllGroup(groupName)
             s1 == [s EXCEPT !.ariaPressed =
                      [w \in Widgets |->
                          IF w \in groupButtons /\ w = activeButton
                          THEN "true" ELSE @[w]]]
         IN  IF activeButton # NoWidget
             THEN _dispatchEvent(s1, activeButton, "toggle", <<TRUE>>)
             ELSE s1

setGroupValue(s, groupName, activeButton) ==
    IF ~isValidGroupName(groupName) THEN s
    ELSE LET groupButtons == querySelectorAllGroup(groupName)
             s1 == [s EXCEPT !.ariaPressed =
                      [w \in Widgets |->
                          IF w \in groupButtons
                          THEN String(w = activeButton) ELSE @[w]]]
         IN  IF activeButton # NoWidget
             THEN _dispatchEvent(s1, activeButton, "toggle", <<TRUE>>)
             ELSE s1

(***************************************************************************)
(* Timers and announcements.                                               *)
(***************************************************************************)
\* clearTimeout(id): the pending timer with that id, if any, is removed
clearTimeout(s, id) == [s EXCEPT !.timers = {t \in @ : t.id # id}]

\* const timeoutId = setTimeout(callback, d); buttonTimeouts.set(button, timeoutId)
\* kind names the callback: "loading" (_handleLoading), "setLoading",
\* "autoDisable"; delay is d.  The id returned is s.nextTimerId.
setTimeout(s, button, kind, delay) ==
    [s EXCEPT
        !.timers = @ \cup {[id |-> s.nextTimerId, button |-> button, kind |-> kind,
                            delay |-> delay]},
        !.nextTimerId = @ + 1,
        !.buttonTimeouts[button] = s.nextTimerId]

\* _announce(message): no live region ("none"): nothing; else the text is
\* cleared and a timer is queued that writes the message (AnnounceFire)
_announce(s, message) ==
    IF s.liveRegion = "none" THEN s
    ELSE [s EXCEPT !.liveRegion = "", !.announceQ = Append(@, message)]

\* the loading state is applied: classList.add('btn--loading'), aria-busy
\* true, disabled true.  History: a widget that was not loading begins a
\* session, and its markup and disabled flag before the session are kept.
applyLoadingState(s, button) ==
    [s EXCEPT
        !.loadingClass[button] = TRUE,
        !.ariaBusy[button] = "true",
        !.disabled[button] = TRUE,
        !.preLoad[button] =
            IF s.loadingClass[button] THEN @
            ELSE <<[innerHTML |-> s.innerHTML[button], disabled |-> s.disabled[button]]>>,
        !.completes[button] = IF s.loadingClass[button] THEN @ ELSE 0,
        !.restarted[button] = s.loadingClass[button]]

(***************************************************************************)
(* Transient state: loading and auto-disable.                              *)
(***************************************************************************)
_resetLoadingState(s, button) ==
    LET original == s.buttonOriginalContent[button]
        s1 == [s EXCEPT !.loadingClass[button] = FALSE,
                        !.ariaBusy[button] = "false",
                        !.disabled[button] =
                            IF original # <<>> THEN original[1].disabled ELSE FALSE,
                        !.innerHTML[button] =
                            IF original # <<>> THEN original[1].innerHTML ELSE @,
                        !.buttonOriginalContent[button] = <<>>,
                        !.buttonTimeouts[button] = 0]
        s2 == _announce(s1, "complete")
    IN  _dispatchEvent(s2, button, "loadingComplete", <<>>)

\* faulty variant: a loading widget starts loading again
_handleLoading_ReEnter(s, button) ==
    IF FALSE THEN s
    ELSE LET loadingDuration == parseDuration(attrs[button].loadingDuration,
                                             DEFAULTS.loadingDuration)
             s1 == [s EXCEPT !.buttonOriginalContent[button] =
                        <<[innerHTML |-> s.innerHTML[button],
                           disabled |-> s.disabled[button]]>>]
             s2 == applyLoadingState(s1, button)
             s3 == _announce(s2, "loading")
             existingTimeout == s3.buttonTimeouts[button]
             s4 == IF existingTimeout # 0 THEN clearTimeout(s3, existingTimeout) ELSE s3
         IN  setTimeout(s4, button, "loading", loadingDuration)

_handleLoading(s, button) ==
    IF s.loadingClass[button] THEN s
    ELSE LET loadingDuration == parseDuration(attrs[button].loadingDuration,
                                             DEFAULTS.loadingDuration)
             s1 == [s EXCEPT !.buttonOriginalContent[button] =
                        <<[innerHTML |-> s.innerHTML[button],
                           disabled |-> s.disabled[button]]>>]
             s2 == applyLoadingState(s1, button)
             s3 == _announce(s2, "loading")
             existingTimeout == s3.buttonTimeouts[button]
             s4 == IF existingTimeout # 0 THEN clearTimeout(s3, existingTimeout) ELSE s3
         IN  setTimeout(s4, button, "loading", loadingDuration)

\* faulty variant: the widget's pending timer is not cleared
_handleAutoDisable_NoClear(s, button) ==
    LET disableDuration == parseDuration(attrs[button].disableDuration,
                                         DEFAULTS.disableDuration)
        s2 == [s EXCEPT !.disabled[button] = TRUE, !.ariaDisabled[button] = TRUE]
    IN  setTimeout(s2, button, "autoDisable", disableDuration)

_handleAutoDisable(s, button) ==
    LET disableDuration == parseDuration(attrs[button].disableDuration,
                                         DEFAULTS.disableDuration)
        existingTimeout == s.buttonTimeouts[button]
        s1 == IF existingTimeout # 0 THEN clearTimeout(s, existingTimeout) ELSE s
        s2 == [s1 EXCEPT !.disabled[button] = TRUE, !.ariaDisabled[button] = TRUE]
    IN  setTimeout(s2, button, "autoDisable", disableDuration)

\* the callback of the timer _handleLoading and setLoading start
loadingExpiry(s, t) ==
    LET s1 == IF isElementConnected(t.button)
              THEN _resetLoadingState(s, t.button)
              ELSE [s EXCEPT !.buttonOriginalContent[t.button] = <<>>,
                             !.buttonTimeouts[t.button] = 0]
    IN  IF t.kind = "setLoading" THEN [s1 EXCEPT !.pendingSignals = @ \ {t.id}] ELSE s1

\* the callback of the timer _handleAutoDisable starts
autoDisableExpiry(s, t) ==
    LET s1 == IF isElementConnected(t.button)
              THEN [s EXCEPT !.disabled[t.button] = FALSE,
                             !.ariaDisabled[t.button] = FALSE]
              ELSE s
    IN  [s1 EXCEPT !.buttonTimeouts[t.button] = 0]

\* button instanceof HTMLElement, for the handles the operations are given
isHTMLElement(button) == button \in Widgets

\* setLoading(button) with the default duration
\* faulty variant: the widget's pending timer is not cleared
setLoading_NoClear(s, button) ==
    LET s1 == [s EXCEPT !.buttonOriginalContent[button] =
                    <<[innerHTML |-> s.innerHTML[button],
                       disabled |-> s.disabled[button]]>>]
        s3 == applyLoadingState(s1, button)
        s4 == _announce(s3, "loading")
        s5 == setTimeout(s4, button, "setLoading",
                         clamp(DEFAULTS.loadingDuration,
                               DEFAULTS.minDuration, DEFAULTS.maxDuration))
    IN  IF button = NoWidget \/ ~isHTMLElement(button)
        THEN [s EXCEPT !.signal = "TypeError"]
        ELSE [s5 EXCEPT !.pendingSignals = @ \cup {s4.nextTimerId},
                        !.signal = "pending"]

\* faulty variant: the loading announcement is made before the argument is
\* validated
setLoading_AnnounceFirst(s, button) ==
    LET s0 == _announce(s, "loading")
        s1 == [s0 EXCEPT !.buttonOriginalContent[button] =
                    <<[innerHTML |-> s.innerHTML[button],
                       disabled |-> s.disabled[button]]>>]
        existingTimeout == s1.buttonTimeouts[button]
        s2 == IF existingTimeout # 0 THEN clearTimeout(s1, existingTimeout) ELSE s1
        s3 == applyLoadingState(s2, button)
        s5 == setTimeout(s3, button, "setLoading",
                         clamp(DEFAULTS.loadingDuration,
                               DEFAULTS.minDuration, DEFAULTS.maxDuration))
    IN  IF button = NoWidget \/ ~isHTMLElement(button)
        THEN [s0 EXCEPT !.signal = "TypeError"]
        ELSE [s5 EXCEPT !.pendingSignals = @ \cup {s3.nextTimerId},
                        !.signal = "pending"]

setLoading(s, button) ==
    LET s1 == [s EXCEPT !.buttonOriginalContent[button] =
                    <<[innerHTML |-> s.innerHTML[button],
                       disabled |-> s.disabled[button]]>>]
        existingTimeout == s1.buttonTimeouts[button]
        s2 == IF existingTimeout # 0 THEN clearTimeout(s1, existingTimeout) ELSE s1
        s3 == applyLoadingState(s2, button)
        s4 == _announce(s3, "loading")
        s5 == setTimeout(s4, button, "setLoading",
                         clamp(DEFAULTS.loadingDuration,
                               DEFAULTS.minDuration, DEFAULTS.maxDuration))
    IN  IF button = NoWidget \/ ~isHTMLElement(button)
        THEN [s EXCEPT !.signal = "TypeError"]
        ELSE [s5 EXCEPT !.pendingSignals = @ \cup {s4.nextTimerId},
                        !.signal = "pending"]

cancelLoading(s, button) ==
    IF button = NoWidget THEN s
    ELSE LET existingTimeout == s.buttonTimeouts[button]
             s1 == IF existingTimeout # 0 THEN clearTimeout(s, existingTimeout) ELSE s
         IN  IF isElementConnected(button)
             THEN _resetLoadingState(s1, button)
             ELSE [s1 EXCEPT !.buttonOriginalContent[button] = <<>>,
                             !.buttonTimeouts[button] = 0]

(***************************************************************************)
(* Dropdown controller.                                                    *)
(***************************************************************************)
\* _closeDropdown(dropdown, trigger): the trigger passed and the trigger
\* looked up are the same element
_closeDropdown(s, dropdown) ==
    [s EXCEPT !.triggerExpanded[dropdown] = "false",
              !.dropdownExpanded[dropdown] = "false",
              !.openDropdowns = @ \ {dropdown},
              !.menuPosition[dropdown] = "absent"]

\* this._openDropdowns.forEach(...): the tracked dropdowns are visited one by
\* one, and each attached one is closed
RECURSIVE forEachClose(_, _)
forEachClose(s, dropdowns) ==
    IF dropdowns = {} THEN s
    ELSE LET dropdown == CHOOSE d \in dropdowns : TRUE
         IN  forEachClose(IF isElementConnected(dropdown)
                          THEN _closeDropdown(s, dropdown) ELSE s,
                          dropdowns \ {dropdown})

_closeAllDropdowns(s) ==
    [forEachClose(s, s.openDropdowns) EXCEPT !.openDropdowns = {}]

\* the positioning and the focus of the first item are deferred to the next
\* animation frame (FrameFire)
_openDropdown(s, dropdown) ==
    [s EXCEPT !.triggerExpanded[dropdown] = "true",
              !.dropdownExpanded[dropdown] = "true",
              !.openDropdowns = @ \cup {dropdown},
              !.frameQ = Append(@, dropdown)]

\* the lookup returns the list and may store a cache entry: .items is the
\* list returned, .state the state after the lookup
\* faulty variant: a lookup within the window refreshes the entry's timestamp
_getDropdownItems_Refresh(s, menu) ==
    LET cached == s.dropdownItemCache[menu]
    IN  IF cached # <<>> /\ (s.now - cached[1].timestamp) < DEFAULTS.cacheMaxAge
        THEN [items |-> cached[1].items,
              state |-> [s EXCEPT !.lookup = <<[menu |-> menu, items |-> cached[1].items]>>,
                                  !.dropdownItemCache[menu] =
                                      <<[items |-> cached[1].items, timestamp |-> s.now]>>]]
        ELSE LET items == querySelectorAllItems(menu)
             IN  [items |-> items,
                  state |-> [s EXCEPT !.lookup = <<[menu |-> menu, items |-> items]>>,
                                      !.dropdownItemCache[menu] =
                                          <<[items |-> items, timestamp |-> s.now]>>]]

_getDropdownItems(s, menu) ==
    LET cached == s.dropdownItemCache[menu]
    IN  IF cached # <<>> /\ (s.now - cached[1].timestamp) < DEFAULTS.cacheMaxAge
        THEN [items |-> cached[1].items,
              state |-> [s EXCEPT !.lookup = <<[menu |-> menu, items |-> cached[1].items]>>]]
        ELSE LET items == querySelectorAllItems(menu)
             IN  [items |-> items,
                  state |-> [s EXCEPT !.lookup = <<[menu |-> menu, items |-> items]>>,
                                      !.dropdownItemCache[menu] =
                                          <<[items |-> items, timestamp |-> s.now]>>]]

\* the menu's bounding box is measured against the viewport: overflowsEnd and
\* overflowsBottom are the outcome of the measurement
_positionDropdownMenu(s, dropdown, overflowsEnd, overflowsBottom) ==
    LET s1 == [s EXCEPT !.menuPosition[dropdown] = "absent"]
        s2 == IF overflowsEnd THEN [s1 EXCEPT !.menuPosition[dropdown] = "end"] ELSE s1
    IN  IF overflowsBottom
        THEN [s2 EXCEPT !.menuPosition[dropdown] = IF @ = "end" THEN "end top" ELSE "top"]
        ELSE s2

\* the callback _openDropdown hands to requestAnimationFrame
frameCallback(s, dropdown, overflowsEnd, overflowsBottom) ==
    IF isElementConnected(dropdown)
    THEN LET s1 == _positionDropdownMenu(s, dropdown, overflowsEnd, overflowsBottom)
             got == _getDropdownItems(s1, dropdown)
         IN  IF Len(got.items) > 0
             THEN [got.state EXCEPT !.focusQ = Append(@, got.items[1])]
             ELSE got.state
    ELSE s

\* item.getAttribute(DATA_ATTRS.value) || (item.textContent ? item.textContent.trim() : '')
itemValue(item) ==
    IF dataValue[item] # <<>> THEN dataValue[item] ELSE trim(textContent[item])

\* faulty variant: the dropdown stays open after the selection
_handleDropdownItemClick_KeepOpen(s, item, dropdown) ==
    LET s1 == _dispatchEvent(s, dropdown, "select",
                             [value |-> itemValue(item), item |-> item])
    IN  IF isElementConnected(trigger[dropdown]) THEN focus(s1, trigger[dropdown]) ELSE s1

\* the detail of the select event is {value, item}
_handleDropdownItemClick(s, item, dropdown) ==
    LET s1 == _dispatchEvent(s, dropdown, "select",
                             [value |-> itemValue(item), item |-> item])
        s2 == _closeDropdown(s1, dropdown)
    IN  IF isElementConnected(trigger[dropdown]) THEN focus(s2, trigger[dropdown]) ELSE s2

_handleDropdown(s, target, dropdown) ==
    IF indexOf(menuItems[dropdown], target) >= 0
    THEN _handleDropdownItemClick(s, target, dropdown)
    ELSE IF target = trigger[dropdown]
    THEN LET isExpanded == s.triggerExpanded[dropdown] = "true"
             s1 == _closeAllDropdowns(s)
         IN  IF ~isExpanded THEN _openDropdown(s1, dropdown) ELSE s1
    ELSE s

\* items[index]?.focus(), with JavaScript's indices
focusItem(s, items, index) ==
    IF index >= 0 /\ index < Len(items) THEN focus(s, items[index + 1]) ELSE s

\* faulty variant: ArrowDown on the last item stays on the last item
_handleDropdownKeyboard_NoWrap(s, key, target, dropdown) ==
    LET got == _getDropdownItems(s, dropdown)
        items == got.items
        s1 == got.state
        isExpanded == s1.triggerExpanded[dropdown] = "true"
        currentIndex == indexOf(items, s1.activeElement)
    IN  CASE key = "Escape" ->
                IF isExpanded
                THEN focus(_closeDropdown(s1, dropdown), trigger[dropdown])
                ELSE s1
          [] key = "ArrowDown" ->
                IF ~isExpanded THEN _openDropdown(s1, dropdown)
                ELSE IF Len(items) > 0
                THEN focusItem(s1, items,
                         IF currentIndex < Len(items) - 1 THEN currentIndex + 1
                         ELSE Len(items) - 1)
                ELSE s1
          [] key = "ArrowUp" ->
                IF isExpanded /\ Len(items) > 0
                THEN focusItem(s1, items,
                         IF currentIndex > 0 THEN currentIndex - 1 ELSE Len(items) - 1)
                ELSE s1
          [] key = "Home" ->
                IF isExpanded /\ Len(items) > 0 THEN focusItem(s1, items, 0) ELSE s1
          [] key = "End" ->
                IF isExpanded /\ Len(items) > 0
                THEN focusItem(s1, items, Len(items) - 1) ELSE s1
          [] key \in {"Enter", " "} ->
                IF indexOf(menuItems[dropdown], target) >= 0
                THEN _handleDropdownItemClick(s1, target, dropdown)
                ELSE s1
          [] key = "Tab" ->
                IF isExpanded THEN _closeDropdown(s1, dropdown) ELSE s1
          [] OTHER -> s1

_handleDropdownKeyboard(s, key, target, dropdown) ==
    LET got == _getDropdownItems(s, dropdown)
        items == got.items
        s1 == got.state
        isExpanded == s1.triggerExpanded[dropdown] = "true"
        currentIndex == indexOf(items, s1.activeElement)
    IN  CASE key = "Escape" ->
                IF isExpanded
                THEN focus(_closeDropdown(s1, dropdown), trigger[dropdown])
                ELSE s1
          [] key = "ArrowDown" ->
                IF ~isExpanded THEN _openDropdown(s1, dropdown)
                ELSE IF Len(items) > 0
                THEN focusItem(s1, items,
                         IF currentIndex < Len(items) - 1 THEN currentIndex + 1 ELSE 0)
                ELSE s1
          [] key = "ArrowUp" ->
                IF isExpanded /\ Len(items) > 0
                THEN focusItem(s1, items,
                         IF currentIndex > 0 THEN currentIndex - 1 ELSE Len(items) - 1)
                ELSE s1
          [] key = "Home" ->
                IF isExpanded /\ Len(items) > 0 THEN focusItem(s1, items, 0) ELSE s1
          [] key = "End" ->
                IF isExpanded /\ Len(items) > 0
                THEN focusItem(s1, items, Len(items) - 1) ELSE s1
          [] key \in {"Enter", " "} ->
                IF indexOf(menuItems[dropdown], target) >= 0
                THEN _handleDropdownItemClick(s1, target, dropdown)
                ELSE s1
          [] key = "Tab" ->
                IF isExpanded THEN _closeDropdown(s1, dropdown) ELSE s1
          [] OTHER -> s1

\* the keydown listener: outside a dropdown it changes no state
_handleKeydown(s, key, target) ==
    LET dropdown == closestDropdown(target)
    IN  IF dropdown # NoWidget THEN _handleDropdownKeyboard(s, key, target, dropdown) ELSE s

openDropdown(s, dropdown) ==
    IF dropdown = NoWidget THEN s
    ELSE _openDropdown(_closeAllDropdowns(s), dropdown)

closeDropdown(s, dropdown) ==
    IF dropdown = NoWidget THEN s ELSE _closeDropdown(s, dropdown)

closeAllDropdowns(s) == _closeAllDropdowns(s)

(***************************************************************************)
(* Expand controller.  The expand widgets of the page carry no             *)
(* aria-controls attribute, so the handler finds no region to show or hide.*)
(***************************************************************************)
_handleExpand(s, button) ==
    LET isExpanded == s.ariaExpanded[button] = "true"
        newState == ~isExpanded
        s1 == [s EXCEPT !.ariaExpanded[button] = String(newState)]
    IN  _dispatchEvent(s1, button, "expand", <<newState>>)

(***************************************************************************)
(* Lifecycle.                                                              *)
(***************************************************************************)
_createLiveRegion(s) ==
    IF s.liveRegion # "none" THEN s ELSE [s EXCEPT !.liveRegion = ""]

init(s) ==
    IF s.initialized THEN s
    ELSE LET s1 == [s EXCEPT !.listening = TRUE]
             s2 == _closeAllDropdowns(s1)
             s3 == _createLiveRegion(s2)
         IN  [s3 EXCEPT !.initialized = TRUE]

\* faulty variant: the listeners are not aborted
destroy_KeepListeners(s) ==
    IF ~s.initialized THEN s
    ELSE [s EXCEPT !.liveRegion = "none",
                   !.openDropdowns = {},
                   !.initialized = FALSE]

\* faulty variant: teardown cancels the pending timers
destroy_CancelTimers(s) ==
    IF ~s.initialized THEN s
    ELSE [s EXCEPT !.listening = FALSE,
                   !.liveRegion = "none",
                   !.openDropdowns = {},
                   !.timers = {},
                   !.initialized = FALSE]

destroy(s) ==
    IF ~s.initialized THEN s
    ELSE [s EXCEPT !.listening = FALSE,
                   !.liveRegion = "none",
                   !.openDropdowns = {},
                   !.initialized = FALSE]

(***************************************************************************)
(* Event router: the click handler.  The target is a widget (outside every *)
(* dropdown or standing in a dropdown container), the trigger or an item   *)
(* of a dropdown, or the body.  Triggers and items are buttons that are    *)
(* never disabled and carry no toggle, loading, auto-disable or expand     *)
(* marker.                                                                 *)
(***************************************************************************)
\* faulty variant: the dismissal runs only when the controllers run
_handleEvent_DismissAfterCheck(s, target) ==
    LET s0 == IF closestDropdown(target) = NoWidget
              THEN [_closeAllDropdowns(s) EXCEPT !.dismissed = <<Len(s.invoked)>>]
              ELSE s
        button == IF target = Body THEN NoWidget ELSE target
        isWidget == button \in Widgets
        s1 == IF isWidget /\ attrs[button].toggle
              THEN _handleToggle([s0 EXCEPT !.invoked = Append(@, "toggle")], button)
              ELSE s0
        s2 == IF isWidget /\ attrs[button].loadingText
              THEN _handleLoading([s1 EXCEPT !.invoked = Append(@, "loading")], button)
              ELSE s1
        s3 == IF isWidget /\ attrs[button].autoDisable
              THEN _handleAutoDisable([s2 EXCEPT !.invoked = Append(@, "autoDisable")], button)
              ELSE s2
        dropdown == closestDropdown(button)
        s4 == IF dropdown # NoWidget
              THEN _handleDropdown([s3 EXCEPT !.invoked = Append(@, "dropdown")],
                                   button, dropdown)
              ELSE s3
        s5 == IF isWidget /\ attrs[button].expand
              THEN _handleExpand([s4 EXCEPT !.invoked = Append(@, "expand")], button)
              ELSE s4
    IN  IF button = NoWidget THEN s
        ELSE IF isWidget /\ (s.disabled[button] \/ s.ariaDisabled[button]) THEN s
        ELSE s5

\* faulty variant: the controllers run on a disabled widget too
_handleEvent_NoDisabledCheck(s, target) ==
    LET s0 == IF closestDropdown(target) = NoWidget
              THEN [_closeAllDropdowns(s) EXCEPT !.dismissed = <<Len(s.invoked)>>]
              ELSE s
        button == IF target = Body THEN NoWidget ELSE target
        isWidget == button \in Widgets
        s1 == IF isWidget /\ attrs[button].toggle
              THEN _handleToggle([s0 EXCEPT !.invoked = Append(@, "toggle")], button)
              ELSE s0
        s2 == IF isWidget /\ attrs[button].loadingText
              THEN _handleLoading([s1 EXCEPT !.invoked = Append(@, "loading")], button)
              ELSE s1
        s3 == IF isWidget /\ attrs[button].autoDisable
              THEN _handleAutoDisable([s2 EXCEPT !.invoked = Append(@, "autoDisable")], button)
              ELSE s2
        dropdown == closestDropdown(button)
        s4 == IF dropdown # NoWidget
              THEN _handleDropdown([s3 EXCEPT !.invoked = Append(@, "dropdown")],
                                   button, dropdown)
              ELSE s3
        s5 == IF isWidget /\ attrs[button].expand
              THEN _handleExpand([s4 EXCEPT !.invoked = Append(@, "expand")], button)
              ELSE s4
    IN  IF button = NoWidget THEN s0
        ELSE s5

\* faulty variant: the expand controller is skipped once the widget is disabled
_handleEvent_StopOnceDisabled(s, target) ==
    LET s0 == IF closestDropdown(target) = NoWidget
              THEN [_closeAllDropdowns(s) EXCEPT !.dismissed = <<Len(s.invoked)>>]
              ELSE s
        button == IF target = Body THEN NoWidget ELSE target
        isWidget == button \in Widgets
        s1 == IF isWidget /\ attrs[button].toggle
              THEN _handleToggle([s0 EXCEPT !.invoked = Append(@, "toggle")], button)
              ELSE s0
        s2 == IF isWidget /\ attrs[button].loadingText
              THEN _handleLoading([s1 EXCEPT !.invoked = Append(@, "loading")], button)
              ELSE s1
        s3 == IF isWidget /\ attrs[button].autoDisable
              THEN _handleAutoDisable([s2 EXCEPT !.invoked = Append(@, "autoDisable")], button)
              ELSE s2
        dropdown == closestDropdown(button)
        s4 == IF dropdown # NoWidget
              THEN _handleDropdown([s3 EXCEPT !.invoked = Append(@, "dropdown")],
                                   button, dropdown)
              ELSE s3
        s5 == IF isWidget /\ attrs[button].expand /\ ~s4.disabled[button]
              THEN _handleExpand([s4 EXCEPT !.invoked = Append(@, "expand")], button)
              ELSE s4
    IN  IF button = NoWidget THEN s0
        ELSE IF isWidget /\ (s0.disabled[button] \/ s0.ariaDisabled[button]) THEN s0
        ELSE s5

_handleEvent(s, target) ==
    LET s0 == IF closestDropdown(target) = NoWidget
              THEN [_closeAllDropdowns(s) EXCEPT !.dismissed = <<Len(s.invoked)>>]
              ELSE s
        button == IF target = Body THEN NoWidget ELSE target
        isWidget == button \in Widgets
        s1 == IF isWidget /\ attrs[button].toggle
              THEN _handleToggle([s0 EXCEPT !.invoked = Append(@, "toggle")], button)
              ELSE s0
        s2 == IF isWidget /\ attrs[button].loadingText
              THEN _handleLoading([s1 EXCEPT !.invoked = Append(@, "loading")], button)
              ELSE s1
        s3 == IF isWidget /\ attrs[button].autoDisable
              THEN _handleAutoDisable([s2 EXCEPT !.invoked = Append(@, "autoDisable")], button)
              ELSE s2
        dropdown == closestDropdown(button)
        s4 == IF dropdown # NoWidget
              THEN _handleDropdown([s3 EXCEPT !.invoked = Append(@, "dropdown")],
                                   button, dropdown)
              ELSE s3
        s5 == IF isWidget /\ attrs[button].expand
              THEN _handleExpand([s4 EXCEPT !.invoked = Append(@, "expand")], button)
              ELSE s4
    IN  IF button = NoWidget THEN s0
        ELSE IF isWidget /\ (s0.disabled[button] \/ s0.ariaDisabled[button]) THEN s0
        ELSE s5

(***************************************************************************)
(* Initial states.                                                         *)
(***************************************************************************)
PlainAttrs ==
    [toggle |-> FALSE, toggleGroup |-> <<>>, loadingText |-> FALSE, autoDisable |-> FALSE,
     loadingDuration |-> <<>>, disableDuration |-> <<>>,
     expand |-> FALSE, dropdown |-> NoWidget]

\* toggle widgets, each with any data-toggle-group attribute
ToggleAttrs == {[PlainAttrs EXCEPT !.toggle = TRUE, !.toggleGroup = g] : g \in GroupAttrs}

\* widgets with any combination of the loading-text and auto-disable markers
TransientAttrs ==
    {[PlainAttrs EXCEPT !.loadingText = l, !.autoDisable = a] : l, a \in BOOLEAN}

\* the state after construction and init(): listeners attached, the live
\* region created and empty, no timer, no side-table entry
InitSystem ==
    /\ attached = [w \in Widgets \cup Dropdowns |-> TRUE]
    /\ ariaPressed = [w \in Widgets |-> "absent"]
    /\ ariaExpanded = [w \in Widgets |-> "absent"]
    /\ loadingClass = [w \in Widgets |-> FALSE]
    /\ ariaBusy = [w \in Widgets |-> "absent"]
    /\ ariaDisabled = [w \in Widgets |-> FALSE]
    /\ innerHTML = [w \in Widgets |-> "m0"]
    /\ buttonTimeouts = [w \in Widgets |-> 0]
    /\ buttonOriginalContent = [w \in Widgets |-> <<>>]
    /\ timers = {}
    /\ nextTimerId = 1
    /\ pendingSignals = {}
    /\ liveRegion = ""
    /\ announceQ = <<>>
    /\ initialized = TRUE
    /\ listening = TRUE
    /\ triggerExpanded = [d \in Dropdowns |-> "absent"]
    /\ dropdownExpanded = [d \in Dropdowns |-> "absent"]
    /\ menuPosition = [d \in Dropdowns |-> "absent"]
    /\ openDropdowns = {}
    /\ activeElement = Body
    /\ frameQ = <<>>
    /\ focusQ = <<>>
    /\ dropdownItemCache = [d \in Dropdowns |-> <<>>]
    /\ now = 0
    /\ lastOp = [op |-> "init", button |-> NoWidget, arg |-> <<>>, wasLoading |-> FALSE]
    /\ emitted = <<>>
    /\ invoked = <<>>
    /\ dismissed = <<>>
    /\ signal = "none"
    /\ lookup = <<>>
    /\ preLoad = [w \in Widgets |-> <<>>]
    /\ completes = [w \in Widgets |-> 0]
    /\ restarted = [w \in Widgets |-> FALSE]

\* widget A is a member of the group "size"; the other widgets carry any
\* group attribute (widgets are interchangeable, so fixing one loses no case)
InitToggle ==
    /\ InitSystem
    /\ attrs \in {f \in [Widgets -> ToggleAttrs] : f["A"].toggleGroup = <<NameSize>>}
    /\ menuSize = [d \in Dropdowns |-> Len(menuItems[d])]
    /\ disabled = [w \in Widgets |-> FALSE]

InitLoading ==
    /\ InitSystem
    /\ attrs \in {f \in [Widgets -> TransientAttrs] :
                    \A w \in Widgets \ LoadingWidgets : f[w] = PlainAttrs}
    /\ menuSize = [d \in Dropdowns |-> Len(menuItems[d])]
    /\ disabled \in {f \in [Widgets -> BOOLEAN] :
                    \A w \in Widgets \ LoadingWidgets : ~f[w]}

(***************************************************************************)
(* Actions: one per input event, public operation, timer callback and host *)
(* mutation of the tree.                                                   *)
(***************************************************************************)
\* lastOp records the step: the operation, its widget, and an argument (the
\* widgets pressed before a click, the pressed argument of setPressed, the
\* group name of setGroupValue, the kind of the timer that expired)
Op(op, button, arg) ==
    [op |-> op, button |-> button, arg |-> arg,
     wasLoading |-> IF button \in Widgets THEN loadingClass[button] ELSE FALSE]

\* a click event whose target is the element; the event reaches the document
\* listener only from an attached element, and only while listeners are attached
Click(target) ==
    /\ isElementConnected(target)
    /\ Commit(IF listening THEN _handleEvent(Cur, target) ELSE Cur)
    /\ lastOp' = Op("click", target, {w \in Widgets : ariaPressed[w] = "true"})
    /\ UNCHANGED <<attrs, attached, menuSize>>

SetPressed(button, pressed) ==
    /\ Commit(setPressed(Cur, button, pressed))
    /\ lastOp' = Op("setPressed", button, pressed)
    /\ UNCHANGED <<attrs, attached, menuSize>>

SetGroupValue(groupName, activeButton) ==
    /\ Commit(setGroupValue(Cur, groupName, activeButton))
    /\ lastOp' = Op("setGroupValue", activeButton, groupName)
    /\ UNCHANGED <<attrs, attached, menuSize>>

SetLoading(button) ==
    /\ Commit(setLoading(Cur, button))
    /\ lastOp' = Op("setLoading", button, <<>>)
    /\ UNCHANGED <<attrs, attached, menuSize>>

CancelLoading(button) ==
    /\ Commit(cancelLoading(Cur, button))
    /\ lastOp' = Op("cancelLoading", button, <<>>)
    /\ UNCHANGED <<attrs, attached, menuSize>>

\* setLoading and cancelLoading called in quick succession, before the
\* announcement delay of the calls before them has elapsed
SetLoadingBurst(button) ==
    /\ CommitUpTo(setLoading(Cur, button), MaxAnnounceBurst)
    /\ lastOp' = Op("setLoading", button, <<>>)
    /\ UNCHANGED <<attrs, attached, menuSize>>

CancelLoadingBurst(button) ==
    /\ CommitUpTo(cancelLoading(Cur, button), MaxAnnounceBurst)
    /\ lastOp' = Op("cancelLoading", button, <<>>)
    /\ UNCHANGED <<attrs, attached, menuSize>>

\* a pending loading or auto-disable timer fires and its callback runs
TimerFire(t) ==
    /\ t \in timers
    /\ LET s == [Cur EXCEPT !.timers = @ \ {t}]
       IN  Commit(IF t.kind = "autoDisable"
                  THEN autoDisableExpiry(s, t)
                  ELSE loadingExpiry(s, t))
    /\ lastOp' = Op("expire", t.button, t.kind)
    /\ UNCHANGED <<attrs, attached, menuSize>>

\* the oldest pending announce timer fires (all have the same delay):
\* if (this._liveRegion && isElementConnected(this._liveRegion)) textContent = message
AnnounceFire ==
    /\ announceQ # <<>>
    /\ Commit([Cur EXCEPT !.announceQ = Tail(@),
                          !.liveRegion = IF @ # "none" THEN Head(announceQ) ELSE @])
    /\ lastOp' = Op("announce", NoWidget, <<>>)
    /\ UNCHANGED <<attrs, attached, menuSize>>

\* the host removes a widget or a dropdown from the tree, or inserts it again;
\* focus on an element that leaves the tree falls back to the body
HostDetach(w) ==
    /\ attached[w]
    /\ attached' = [attached EXCEPT ![w] = FALSE]
    /\ Commit([Cur EXCEPT !.activeElement =
                   IF @ = w \/ closestDropdown(@) = w THEN Body ELSE @])
    /\ lastOp' = Op("detach", w, <<>>)
    /\ UNCHANGED <<attrs, menuSize>>

HostAttach(w) ==
    /\ ~attached[w]
    /\ attached' = [attached EXCEPT ![w] = TRUE]
    /\ Commit(Cur)
    /\ lastOp' = Op("attach", w, <<>>)
    /\ UNCHANGED <<attrs, menuSize>>

\* the host rewrites a widget's markup
HostSetMarkup(w, m) ==
    /\ innerHTML[w] # m
    /\ Commit([Cur EXCEPT !.innerHTML[w] = m])
    /\ lastOp' = Op("markup", w, <<>>)
    /\ UNCHANGED <<attrs, attached, menuSize>>

\* a keydown event: its target is the element that has focus
Keydown(key) ==
    /\ Commit(IF listening THEN _handleKeydown(Cur, key, activeElement) ELSE Cur)
    /\ lastOp' = Op("keydown", activeElement, key)
    /\ UNCHANGED <<attrs, attached, menuSize>>

OpenDropdown(dropdown) ==
    /\ Commit(openDropdown(Cur, dropdown))
    /\ lastOp' = Op("openDropdown", dropdown, <<>>)
    /\ UNCHANGED <<attrs, attached, menuSize>>

CloseDropdown(dropdown) ==
    /\ Commit(closeDropdown(Cur, dropdown))
    /\ lastOp' = Op("closeDropdown", dropdown, <<>>)
    /\ UNCHANGED <<attrs, attached, menuSize>>

CloseAllDropdowns ==
    /\ Commit(closeAllDropdowns(Cur))
    /\ lastOp' = Op("closeAllDropdowns", NoWidget, <<>>)
    /\ UNCHANGED <<attrs, attached, menuSize>>

\* the next animation frame: the oldest pending frame callback runs, with the
\* outcome of its measurement of the menu
FrameFire(overflowsEnd, overflowsBottom) ==
    /\ frameQ # <<>>
    /\ Commit(frameCallback([Cur EXCEPT !.frameQ = Tail(@)], Head(frameQ),
                            overflowsEnd, overflowsBottom))
    /\ lastOp' = Op("frame", Head(frameQ), <<>>)
    /\ UNCHANGED <<attrs, attached, menuSize>>

\* the oldest pending focus timer fires:
\* if (isElementConnected(items[0])) items[0].focus()
\* An item of an open menu takes focus.  Whether an item of a closed menu can
\* take focus is decided by how the stylesheet hides the menu, which the
\* script does not control: both outcomes are possible.
FocusFire ==
    /\ focusQ # <<>>
    /\ \E focusable \in
            IF dropdownExpanded[closestDropdown(Head(focusQ))] = "true"
            THEN {TRUE} ELSE BOOLEAN :
          Commit(IF focusable
                 THEN focus([Cur EXCEPT !.focusQ = Tail(@)], Head(focusQ))
                 ELSE [Cur EXCEPT !.focusQ = Tail(@)])
    /\ lastOp' = Op("focusTimer", Head(focusQ), <<>>)
    /\ UNCHANGED <<attrs, attached, menuSize>>

\* the user or the host moves focus to an attached trigger or to the body
HostFocus(element) ==
    /\ isElementConnected(element)
    /\ activeElement # element
    /\ Commit([Cur EXCEPT !.activeElement = element])
    /\ lastOp' = Op("focus", element, <<>>)
    /\ UNCHANGED <<attrs, attached, menuSize>>

\* the host appends the next item to a menu, or removes the last one
HostAddItem(d) ==
    /\ menuSize[d] < Len(menuItems[d])
    /\ menuSize' = [menuSize EXCEPT ![d] = @ + 1]
    /\ Commit(Cur)
    /\ lastOp' = Op("addItem", d, <<>>)
    /\ UNCHANGED <<attrs, attached>>

HostRemoveItem(d) ==
    /\ menuSize[d] > 0
    /\ menuSize' = [menuSize EXCEPT ![d] = @ - 1]
    /\ Commit([Cur EXCEPT !.activeElement =
                   IF @ = menuItems[d][menuSize[d]] THEN Body ELSE @])
    /\ lastOp' = Op("removeItem", d, <<>>)
    /\ UNCHANGED <<attrs, attached>>

\* time passes
Tick ==
    /\ Commit([Cur EXCEPT !.now = @ + TickMs])
    /\ lastOp' = Op("tick", NoWidget, <<>>)
    /\ UNCHANGED <<attrs, attached, menuSize>>

InitCall ==
    /\ Commit(init(Cur))
    /\ lastOp' = Op("init", NoWidget, <<>>)
    /\ UNCHANGED <<attrs, attached, menuSize>>

DestroyCall ==
    /\ Commit(destroy(Cur))
    /\ lastOp' = Op("destroy", NoWidget, <<>>)
    /\ UNCHANGED <<attrs, attached, menuSize>>

(***************************************************************************)
(* Specifications.                                                         *)
(***************************************************************************)
NextToggle ==
    \/ \E w \in Widgets : Click(w)
    \/ \E w \in Widgets \cup {NoWidget}, p \in BOOLEAN : SetPressed(w, p)
    \/ \E n \in GroupNames, w \in Widgets \cup {NoWidget} : SetGroupValue(n, w)
    \/ \E w \in Widgets : HostDetach(w)
    \/ \E w \in Widgets : HostAttach(w)

SpecToggle == InitToggle /\ [][NextToggle]_vars

NextLoading ==
    \/ \E w \in LoadingWidgets : Click(w)
    \/ \E w \in LoadingWidgets : SetLoading(w)
    \/ \E w \in LoadingWidgets \cup {NoWidget} : CancelLoading(w)
    \/ \E t \in timers : TimerFire(t)
    \/ AnnounceFire
    \/ \E w \in LoadingWidgets : HostDetach(w)
    \/ \E w \in LoadingWidgets : HostAttach(w)
    \/ \E w \in LoadingWidgets, m \in Markups : HostSetMarkup(w, m)

SpecLoading == InitLoading /\ [][NextLoading]_vars

\* the widgets outside the dropdowns carry no marker; the menu of D1 holds
\* two items and the menu of D2 one
InitDropdown ==
    /\ InitSystem
    /\ attrs = [w \in Widgets |-> PlainAttrs]
    /\ menuSize = [d \in Dropdowns |-> IF d = "D1" THEN 2 ELSE 1]
    /\ disabled = [w \in Widgets |-> FALSE]

\* the elements a click of the dropdown specification targets
ClickTargets ==
    {"A", Body} \cup {trigger[d] : d \in Dropdowns} \cup {menuItems[d][1] : d \in Dropdowns}

Keys == {"Escape", "ArrowDown", "ArrowUp", "Home", "End", "Enter", " ", "Tab", "a"}

\* the keys that open, close or select
LifecycleKeys == {"Escape", "ArrowDown", "Enter", "Tab"}

NextDropdown ==
    \/ \E e \in ClickTargets : Click(e)
    \/ \E key \in LifecycleKeys : Keydown(key)
    \/ \E d \in Dropdowns : OpenDropdown(d)
    \/ \E d \in Dropdowns : CloseDropdown(d)
    \/ CloseAllDropdowns
    \/ FrameFire(FALSE, FALSE)
    \/ FocusFire
    \/ \E d \in Dropdowns : HostFocus(trigger[d])
    \/ HostFocus(Body)
    \/ \E d \in Dropdowns : HostDetach(d)
    \/ \E d \in Dropdowns : HostAttach(d)
    \/ InitCall
    \/ DestroyCall

SpecDropdown == InitDropdown /\ [][NextDropdown]_vars

\* the values of a duration attribute: every string of at most two of the
\* characters below, and longer values around the limits
DurationChars == {"0", "1", "7", "-", "+", " ", ".", "a"}

ShortStrings ==
    {<<>>} \cup {<<c>> : c \in DurationChars}
           \cup {<<c, d>> : c, d \in DurationChars}

LongStrings ==
    { <<"9", "9">>, <<"1", "0", "0">>, <<"1", "0", "1">>, <<"1", "5", "0">>,
      <<"2", "0", "0", "0">>, <<"2", "9", "9", "9", "9">>,
      <<"3", "0", "0", "0", "0">>, <<"3", "0", "0", "0", "1">>,
      <<"9", "9", "9", "9", "9">>, <<"-", "1", "5", "0">>, <<"+", "1", "5", "0">>,
      <<"1", "5", "0", "m", "s">>, <<"1", "5", "0", ".", "7">>,
      <<" ", "1", "5", "0">>, <<"1", "5", "0", " ">>, <<"1", "e", "3">>,
      <<"0", "1", "5", "0">>, <<"m", "s", "1", "5", "0">>, <<"-", " ", "1", "5", "0">> }

DurationAttrs == {<<>>} \cup {<<str>> : str \in ShortStrings \cup LongStrings}

\* widget A carries the loading-text or the auto-disable marker, with any
\* value of that behaviour's duration attribute
InitDuration ==
    /\ InitSystem
    /\ attrs \in {[w \in Widgets |-> IF w \in LoadingWidgets THEN a ELSE PlainAttrs] :
                    a \in {[PlainAttrs EXCEPT !.loadingText = TRUE, !.loadingDuration = v] :
                              v \in DurationAttrs}
                          \cup {[PlainAttrs EXCEPT !.autoDisable = TRUE, !.disableDuration = v] :
                              v \in DurationAttrs}}
    /\ menuSize = [d \in Dropdowns |-> Len(menuItems[d])]
    /\ disabled = [w \in Widgets |-> FALSE]

NextDuration ==
    \/ \E w \in LoadingWidgets : Click(w)
    \/ \E t \in timers : TimerFire(t)
    \/ AnnounceFire

SpecDuration == InitDuration /\ [][NextDuration]_vars

\* the menu of D1 holds any number of its items; the host adds and removes
\* items, time passes, and the user works D1 with the keyboard
InitMenu ==
    /\ InitSystem
    /\ attrs = [w \in Widgets |-> PlainAttrs]
    /\ menuSize \in {f \in [Dropdowns -> 0..Len(menuItems["D1"])] :
                       /\ f["D1"] <= Len(menuItems["D1"])
                       /\ f["D2"] = Len(menuItems["D2"])}
    /\ disabled = [w \in Widgets |-> FALSE]

NextMenu ==
    \/ Click(trigger["D1"])
    \/ \E key \in Keys : Keydown(key)
    \/ FrameFire(FALSE, FALSE)
    \/ FocusFire
    \/ HostFocus(trigger["D1"])
    \/ \E i \in 1..Len(menuItems["D1"]) : HostFocus(menuItems["D1"][i])
    \/ HostAddItem("D1")
    \/ HostRemoveItem("D1")
    \/ Tick

SpecMenu == InitMenu /\ [][NextMenu]_vars

\* the arguments setLoading is called with that are no widget handle
InvalidHandles == {NoWidget, NotAnElement}

NextHandles ==
    \/ \E w \in LoadingWidgets : Click(w)
    \/ \E b \in LoadingWidgets \cup InvalidHandles : SetLoading(b)
    \/ \E t \in timers : TimerFire(t)
    \/ AnnounceFire
    \/ \E w \in LoadingWidgets, m \in Markups : HostSetMarkup(w, m)

SpecHandles == InitLoading /\ [][NextHandles]_vars

\* widgets with any combination of the toggle, loading-text, auto-disable and
\* expand markers, outside every dropdown or standing in the container of D1
RouterAttrs ==
    {[PlainAttrs EXCEPT !.toggle = t, !.loadingText = l, !.autoDisable = a,
                        !.expand = e, !.dropdown = d] :
        t, l, a, e \in BOOLEAN, d \in {NoWidget, "D1"}}

\* widget A carries any combination of markers and is enabled or natively
\* disabled; each menu holds one item
InitRouter ==
    /\ InitSystem
    /\ attrs \in {[w \in Widgets |-> IF w \in LoadingWidgets THEN a ELSE PlainAttrs] :
                    a \in RouterAttrs}
    /\ menuSize = [d \in Dropdowns |-> 1]
    /\ disabled \in {f \in [Widgets -> BOOLEAN] :
                    \A w \in Widgets \ LoadingWidgets : ~f[w]}

\* the elements a click of the router specification targets
RouterTargets == LoadingWidgets \cup {trigger["D1"]}

NextRouter ==
    \/ \E e \in RouterTargets : Click(e)
    \/ FrameFire(FALSE, FALSE)
    \/ FocusFire
    \/ \E t \in timers : TimerFire(t)
    \/ AnnounceFire

SpecRouter == InitRouter /\ [][NextRouter]_vars

\* widget A carries the expand marker or none, stands outside every dropdown
\* or in the container of D1, and is enabled or natively disabled
InitDismiss ==
    /\ InitSystem
    /\ attrs \in {[w \in Widgets |-> IF w \in LoadingWidgets THEN a ELSE PlainAttrs] :
                    a \in {[PlainAttrs EXCEPT !.expand = e, !.dropdown = d] :
                              e \in BOOLEAN, d \in {NoWidget, "D1"}}}
    /\ menuSize = [d \in Dropdowns |-> 1]
    /\ disabled \in {f \in [Widgets -> BOOLEAN] :
                    \A w \in Widgets \ LoadingWidgets : ~f[w]}

\* the elements a click of the dismissal specification targets
DismissTargets ==
    LoadingWidgets \cup {Body, trigger["D1"], trigger["D2"], menuItems["D1"][1]}

NextDismiss ==
    \/ \E e \in DismissTargets : Click(e)
    \/ Keydown("ArrowDown")
    \/ HostFocus(trigger["D2"])
    \/ FrameFire(FALSE, FALSE)
    \/ FocusFire
    \/ HostDetach("D2")
    \/ HostAttach("D2")

SpecDismiss == InitDismiss /\ [][NextDismiss]_vars

\* the user opens and closes D1 with the pointer and the keyboard while the
\* frame callbacks and the focus timers of its opens are pending; the menu
\* may overflow the viewport at either edge
FrameTargets == {trigger["D1"], menuItems["D1"][1], Body}

FrameKeys == {"Escape", "Tab"}

NextFrames ==
    \/ \E e \in FrameTargets : Click(e)
    \/ \E key \in FrameKeys : Keydown(key)
    \/ CloseDropdown("D1")
    \/ \E overflowsEnd, overflowsBottom \in BOOLEAN : FrameFire(overflowsEnd, overflowsBottom)
    \/ FocusFire
    \/ HostFocus(trigger["D1"])

SpecFrames == InitDropdown /\ [][NextFrames]_vars

\* the keys that select the focused item
SelectKeys == {"Enter", " "}

\* the user opens D1 and selects an item of its menu with the pointer or with
\* the keyboard
NextSelect ==
    \/ Click(trigger["D1"])
    \/ \E i \in 1..Len(menuItems["D1"]) : Click(menuItems["D1"][i])
    \/ \E key \in SelectKeys : Keydown(key)
    \/ FrameFire(FALSE, FALSE)
    \/ FocusFire
    \/ HostFocus(trigger["D1"])
    \/ \E i \in 1..Len(menuItems["D1"]) : HostFocus(menuItems["D1"][i])

SpecSelect == InitMenu /\ [][NextSelect]_vars

\* announcements that overlap: loading sessions of widget A are started and
\* cancelled while earlier announcements are still pending
NextAnnounce ==
    \/ \E w \in LoadingWidgets : SetLoadingBurst(w)
    \/ \E w \in LoadingWidgets : CancelLoadingBurst(w)
    \/ AnnounceFire

SpecAnnounce == InitLoading /\ [][NextAnnounce]_vars

\* the system is torn down and started again while countdowns of widget A are
\* pending and the host detaches and re-attaches the widget
NextTeardown ==
    \/ \E w \in LoadingWidgets : Click(w)
    \/ \E w \in LoadingWidgets : SetLoading(w)
    \/ \E t \in timers : TimerFire(t)
    \/ AnnounceFire
    \/ \E w \in LoadingWidgets : HostDetach(w)
    \/ \E w \in LoadingWidgets : HostAttach(w)
    \/ DestroyCall
    \/ InitCall

SpecTeardown == InitLoading /\ [][NextTeardown]_vars

\* the event loop runs the callback of every pending timer: a timer that stays
\* pending fires
FairSpecLoading ==
    SpecLoading /\ WF_vars(AnnounceFire) /\ WF_vars(\E t \in timers : TimerFire(t))

(***************************************************************************)
(* Vocabulary of the properties.                                           *)
(***************************************************************************)
Invoked(controller) == \E i \in 1..Len(invoked) : invoked[i] = controller

Pressed(w) == ariaPressed[w] = "true"

\* the members of a toggle group: what the attribute lookup finds
Members(name) == querySelectorAllGroup(name)

PressedMembers(name) == {m \in Members(name) : Pressed(m)}

AtMostOnePressed(name) == Cardinality(PressedMembers(name)) <= 1

\* the events of the last step with a given name and target
Events(name, target) ==
    {i \in 1..Len(emitted) : emitted[i].name = name /\ emitted[i].target = target}

\* the last step was toggle(widget): a click that ran the toggle controller
ToggleRan == lastOp.op = "click" /\ Invoked("toggle")

GroupOf(w) == attrs[w].toggleGroup

(***************************************************************************)
(* C1: after toggle(m) on a member m of a group with a valid name, m is    *)
(* pressed and every other member of the group is not pressed, whatever    *)
(* the pressed states were before.                                         *)
(***************************************************************************)
C1_ToggleLeavesExactlyTheTarget ==
    (ToggleRan /\ Truthy(GroupOf(lastOp.button))
               /\ VALID_GROUP_NAME(GroupOf(lastOp.button)[1]))
    => /\ PressedMembers(GroupOf(lastOp.button)[1]) = {lastOp.button}
       /\ \A m \in Members(GroupOf(lastOp.button)[1]) \ {lastOp.button} :
              ariaPressed[m] = "false"

\* toggle(B) in a three-member group whose other two members were both pressed
C1_Witness ==
    /\ ToggleRan
    /\ lastOp.button = "B"
    /\ Members(NameSize) = {"A", "B", "C"}
    /\ lastOp.arg = {"A", "C"}
    /\ PressedMembers(NameSize) = {"B"}

(***************************************************************************)
(* C2 as stated: from a group with at most one pressed member, after any   *)
(* sequence of toggle, setPressed and setGroupValue operations no two      *)
(* members of a toggle group are pressed at the same time.                 *)
(***************************************************************************)
C2_NoTwoPressedEver ==
    \A n \in GroupNames : VALID_GROUP_NAME(n) => AtMostOnePressed(n)

(***************************************************************************)
(* C2 amended: every toggle, setGroupValue and setPressed(w, false) step   *)
(* taken from a state where a group has at most one pressed member leaves  *)
(* the group with at most one pressed member (setPressed(w, true) is an    *)
(* unconditional override and is excluded).                                *)
(***************************************************************************)
C2_StepOtherThanOverride ==
    /\ lastOp'.op \in {"click", "setGroupValue", "setPressed"}
    /\ lastOp'.op = "setPressed" => lastOp'.arg = FALSE

C2_ExclusivePreserved ==
    [][\A n \in GroupNames :
         (VALID_GROUP_NAME(n) /\ AtMostOnePressed(n) /\ C2_StepOtherThanOverride)
         => AtMostOnePressed(n)']_vars

\* setGroupValue moved the single pressed member of a three-member group
C2_Witness ==
    /\ lastOp.op = "setGroupValue"
    /\ lastOp.arg = NameSize
    /\ lastOp.button = "C"
    /\ Members(NameSize) = {"A", "B", "C"}
    /\ PressedMembers(NameSize) = {"C"}
    /\ ariaPressed["A"] = "false"

(***************************************************************************)
(* C3 as stated: setGroupValue with a valid group name leaves exactly one  *)
(* member of the group pressed for every activeWidget argument, and the    *)
(* toggle event it emits with pressed=true is on a pressed widget.         *)
(***************************************************************************)
C3_SetGroupValueExactlyOne ==
    (lastOp.op = "setGroupValue" /\ VALID_GROUP_NAME(lastOp.arg))
    => /\ Cardinality(PressedMembers(lastOp.arg)) = 1
       /\ \A i \in 1..Len(emitted) :
              emitted[i].detail = <<TRUE>> => Pressed(emitted[i].target)

(***************************************************************************)
(* C4 as stated: when the group name fails the whitelist, toggle on a      *)
(* widget carrying that name and setGroupValue with that name change the   *)
(* pressed state of no widget.                                             *)
(***************************************************************************)
C4_ToggleStepOn(w) ==
    /\ lastOp'.op = "click" /\ lastOp'.button = w /\ Invoked("toggle")'

C4_InvalidNameChangesNothing ==
    [][/\ \A w \in Widgets :
            (C4_ToggleStepOn(w) /\ GroupOf(w) # <<>> /\ ~VALID_GROUP_NAME(GroupOf(w)[1]))
            => ariaPressed' = ariaPressed
       /\ (lastOp'.op = "setGroupValue" /\ ~VALID_GROUP_NAME(lastOp'.arg))
            => ariaPressed' = ariaPressed]_vars

(***************************************************************************)
(* C4 amended: when the group name is not empty and fails the whitelist,   *)
(* toggle on a widget carrying that name changes the pressed state of no   *)
(* widget, and setGroupValue with any name that fails the whitelist (the   *)
(* empty name included) changes the pressed state of no widget.  (toggle   *)
(* treats an empty group attribute as no group and flips the widget.)      *)
(***************************************************************************)
C4_NonEmptyInvalidNameChangesNothing ==
    [][/\ \A w \in Widgets :
            (C4_ToggleStepOn(w) /\ Truthy(GroupOf(w)) /\ ~VALID_GROUP_NAME(GroupOf(w)[1]))
            => ariaPressed' = ariaPressed
       /\ (lastOp'.op = "setGroupValue" /\ ~VALID_GROUP_NAME(lastOp'.arg))
            => ariaPressed' = ariaPressed]_vars

\* toggle ran on a widget of the group "a b" while a widget of that group was
\* pressed, and setGroupValue is reached with the same name
C4_Witness ==
    /\ ToggleRan
    /\ GroupOf(lastOp.button) = <<NameSpace>>
    /\ \E w \in Widgets \ {lastOp.button} : GroupOf(w) = <<NameSpace>> /\ Pressed(w)
    /\ ~Pressed(lastOp.button)

(***************************************************************************)
(* C5 as stated: every toggle(widget) invocation, grouped with a valid     *)
(* name, grouped with an invalid name, or ungrouped, emits exactly one     *)
(* toggle event on the widget, whose payload is the widget's pressed state *)
(* after the operation.                                                    *)
(***************************************************************************)
C5_OneEvent(w) ==
    /\ Cardinality(Events("toggle", w)) = 1
    /\ \A i \in Events("toggle", w) : emitted[i].detail = <<Pressed(w)>>

C5_ToggleAlwaysEmitsOne == ToggleRan => C5_OneEvent(lastOp.button)

(***************************************************************************)
(* C5 amended: every toggle(widget) invocation on a widget that is         *)
(* ungrouped (no or empty group attribute) or grouped with a valid name    *)
(* emits exactly one toggle event on the widget, whose payload is the      *)
(* widget's pressed state after the operation; on a widget grouped with a  *)
(* non-empty invalid name it emits no event.                               *)
(***************************************************************************)
C5_ToggleEmitsOneUnlessInvalid ==
    ToggleRan =>
        IF Truthy(GroupOf(lastOp.button)) /\ ~VALID_GROUP_NAME(GroupOf(lastOp.button)[1])
        THEN emitted = <<>>
        ELSE C5_OneEvent(lastOp.button)

\* an ungrouped widget toggled off: the one event carries pressed=false
C5_Witness ==
    /\ ToggleRan
    /\ GroupOf(lastOp.button) = <<>>
    /\ lastOp.button \in lastOp.arg
    /\ Len(emitted) = 1
    /\ emitted[1] = [target |-> lastOp.button, name |-> "toggle", detail |-> <<FALSE>>]

(***************************************************************************)
(* Vocabulary of the loading properties.                                   *)
(***************************************************************************)
TimersOf(w) == {t \in timers : t.button = w}

\* the step starts a loading countdown on w
LoadingStartStep(w) ==
    /\ lastOp'.button = w
    /\ \/ lastOp'.op = "setLoading"
       \/ lastOp'.op = "click" /\ Invoked("loading")' /\ ~loadingClass[w]
                               /\ ~disabled[w] /\ ~ariaDisabled[w]

CancelStep(w) == lastOp'.op = "cancelLoading" /\ lastOp'.button = w

ExpiryStep(w) == lastOp'.op = "expire" /\ lastOp'.button = w

WidgetUnchanged(w) ==
    /\ ariaBusy'[w] = ariaBusy[w]
    /\ disabled'[w] = disabled[w]
    /\ innerHTML'[w] = innerHTML[w]
    /\ loadingClass'[w] = loadingClass[w]
    /\ ariaDisabled'[w] = ariaDisabled[w]
    /\ ariaPressed'[w] = ariaPressed[w]
    /\ ariaExpanded'[w] = ariaExpanded[w]

(***************************************************************************)
(* C6: a loading countdown started on a widget cancels every countdown     *)
(* pending on it, so the replaced countdown's callback never runs (only    *)
(* pending timers fire), and a loading session of an attached widget emits *)
(* no loadingComplete while it lasts and exactly one in the step that ends *)
(* it.                                                                     *)
(***************************************************************************)
C6_RestartCancelsAndOneComplete ==
    [][\A w \in Widgets :
         /\ LoadingStartStep(w) =>
              /\ timers \cap timers' \cap TimersOf(w) = {}
              /\ Cardinality({t \in timers' : t.button = w}) = 1
         /\ (loadingClass[w] /\ attached[w]) =>
              Cardinality(Events("loadingComplete", w)') =
                  IF loadingClass'[w] THEN 0 ELSE 1]_vars

\* a session in which setLoading replaced a pending countdown has ended by the
\* expiry of the later countdown, with one loadingComplete
C6_Witness ==
    /\ lastOp.op = "expire"
    /\ lastOp.arg = "setLoading"
    /\ restarted[lastOp.button]
    /\ lastOp.wasLoading
    /\ ~loadingClass[lastOp.button]
    /\ Cardinality(Events("loadingComplete", lastOp.button)) = 1
    /\ completes[lastOp.button] = 1

\* C6, progress (under FairSpecLoading): a session in which a countdown was
\* replaced, with a countdown pending, ends unless the widget is detached
C6_RestartedSessionEnds ==
    \A w \in LoadingWidgets :
        (restarted[w] /\ loadingClass[w] /\ TimersOf(w) # {})
        ~> (~loadingClass[w] \/ ~attached[w])

(***************************************************************************)
(* C7 as stated: cancelLoading on an attached widget in the loading state  *)
(* restores the markup and the disabled flag the widget had before it      *)
(* entered the loading state, for every way the state was entered.         *)
(***************************************************************************)
C7_CancelRestoresPreLoading ==
    (lastOp.op = "cancelLoading" /\ lastOp.button # NoWidget
        /\ lastOp.wasLoading /\ attached[lastOp.button])
    => /\ disabled[lastOp.button] = preLoad[lastOp.button][1].disabled
       /\ innerHTML[lastOp.button] = preLoad[lastOp.button][1].innerHTML

(***************************************************************************)
(* C8: on a detached widget with a loading or auto-disable timer pending,  *)
(* the timer's expiry and cancelLoading change nothing of the widget,      *)
(* emit no event and schedule no announcement; they remove the widget's    *)
(* timer record and leave its snapshot record removed or as it was.        *)
(***************************************************************************)
C8_DetachedOnlyBookkeeping ==
    [][\A w \in Widgets :
         (~attached[w] /\ TimersOf(w) # {} /\ (ExpiryStep(w) \/ CancelStep(w)))
         => /\ WidgetUnchanged(w)
            /\ emitted' = <<>>
            /\ announceQ' = announceQ /\ liveRegion' = liveRegion
            /\ buttonTimeouts'[w] = 0
            /\ {t \in timers' : t.button = w} = {}
            /\ buttonOriginalContent'[w] \in {<<>>, buttonOriginalContent[w]}]_vars

\* a loading timer expired on a detached widget: the widget is still busy and
\* disabled, and both records are gone
C8_Witness ==
    /\ lastOp.op = "expire"
    /\ lastOp.arg = "loading"
    /\ ~attached[lastOp.button]
    /\ loadingClass[lastOp.button] /\ ariaBusy[lastOp.button] = "true"
    /\ disabled[lastOp.button]
    /\ innerHTML[lastOp.button] # preLoad[lastOp.button][1].innerHTML
    /\ buttonTimeouts[lastOp.button] = 0
    /\ buttonOriginalContent[lastOp.button] = <<>>

(***************************************************************************)
(* C9 as stated: for one loading session on an attached widget the         *)
(* restoration runs exactly once under every ordering of the natural       *)
(* expiry and any number of cancelLoading calls: loadingComplete is        *)
(* emitted at most once per session, and a cancelLoading on an attached    *)
(* widget that is not loading (after the restoration, or never loading)    *)
(* changes neither its disabled flag nor its markup.                       *)
(***************************************************************************)
C9_SingleRestoration ==
    [][\A w \in Widgets :
         /\ completes'[w] <= 1
         /\ (CancelStep(w) /\ attached[w] /\ ~loadingClass[w])
            => /\ disabled'[w] = disabled[w]
               /\ innerHTML'[w] = innerHTML[w]]_vars

(***************************************************************************)
(* C10 as stated: the completion signal of every setLoading call resolves  *)
(* when the reset or the detached cleanup for its widget runs, also when   *)
(* the session is ended by cancelLoading or superseded by a later start.   *)
(* Only the callback of the call's own timer resolves the signal, so the   *)
(* claim requires that an unresolved signal's timer is still pending.      *)
(***************************************************************************)
C10_SignalCanStillResolve ==
    \A p \in pendingSignals : \E t \in timers : t.id = p

(***************************************************************************)
(* C11 as stated: every loading session started by a click on a widget     *)
(* that stays attached eventually ends (busy cleared, snapshot restored,   *)
(* loadingComplete emitted), also when the widget carries the auto-disable *)
(* marker and the same click starts its auto-disable countdown.  The       *)
(* formula asks for the least of it: the session ends or the widget is     *)
(* detached.                                                               *)
(***************************************************************************)
C11_ClickStartedLoading(w) ==
    /\ lastOp.op = "click" /\ lastOp.button = w
    /\ Invoked("loading") /\ ~lastOp.wasLoading
    /\ loadingClass[w]

C11_ClickLoadingEnds ==
    \A w \in LoadingWidgets :
        C11_ClickStartedLoading(w) ~> (~loadingClass[w] \/ ~attached[w])

(***************************************************************************)
(* C12 as stated: a widget disabled by the auto-disable behaviour that     *)
(* stays attached is eventually re-enabled (native disabled flag and       *)
(* disabled-state attribute both cleared), whatever setLoading and         *)
(* cancelLoading operations are applied to it while the auto-disable       *)
(* countdown is pending.                                                   *)
(***************************************************************************)
C12_AutoDisabledIsReEnabled ==
    \A w \in LoadingWidgets :
        ariaDisabled[w] ~> ((~ariaDisabled[w] /\ ~disabled[w]) \/ ~attached[w])

(***************************************************************************)
(* Vocabulary of the dropdown properties.                                  *)
(***************************************************************************)
\* the dropdown's own expanded attribute is true
Expanded(d) == dropdownExpanded[d] = "true"

KeyStep(key) == lastOp'.op = "keydown" /\ lastOp'.arg = key

(***************************************************************************)
(* C13 as stated: in every reachable state at most one dropdown has        *)
(* expanded=true, whichever way dropdowns are opened: a trigger click, the *)
(* public openDropdown operation, or ArrowDown pressed on a closed         *)
(* dropdown while another dropdown is open.  The formula counts the        *)
(* attached dropdowns only, the least the claim asks.                      *)
(***************************************************************************)
C13_AtMostOneExpanded ==
    Cardinality({d \in Dropdowns : attached[d] /\ Expanded(d)}) <= 1

(***************************************************************************)
(* C14 as stated: in every reachable state, over any sequence of open,     *)
(* close, closeAll, clicks, key presses, widget detachment and             *)
(* re-attachment, and destroy/init, a dropdown is in the tracked open-set  *)
(* if and only if its expanded attribute is true.                          *)
(***************************************************************************)
C14_OpenSetIffExpanded ==
    \A d \in Dropdowns : d \in openDropdowns <=> Expanded(d)

(***************************************************************************)
(* C15: teardown is idempotent and revokes input handling.  While the      *)
(* system is destroyed, a click or a keydown changes no state of any       *)
(* widget or dropdown and emits no event, and destroy() changes nothing;   *)
(* init() on an initialized system changes nothing; init() on a destroyed  *)
(* system leaves the system's own state as it is after the first start     *)
(* (listeners attached, an empty live region, an empty open-set), and of   *)
(* the tree it changes only the dropdowns it closes, those the public      *)
(* operations opened while the system was destroyed.                       *)
(***************************************************************************)
\* the state of the widgets and the focus
WidgetVars ==
    <<attrs, attached, menuSize, ariaPressed, ariaExpanded, loadingClass, ariaBusy,
      disabled, ariaDisabled, innerHTML, activeElement>>

\* the state of the dropdowns
DropdownVars == <<triggerExpanded, dropdownExpanded, menuPosition>>

TreeVars == <<WidgetVars, DropdownVars>>

\* the side tables, the pending callbacks and the clock
TableVars ==
    <<buttonTimeouts, buttonOriginalContent, timers, nextTimerId, pendingSignals,
      announceQ, frameQ, focusQ, dropdownItemCache, now>>

\* the system's own state
SystemVars == <<initialized, listening, liveRegion, openDropdowns>>

C15_TeardownIdempotentAndRevoking ==
    [][/\ (~initialized /\ lastOp'.op \in {"click", "keydown", "destroy"})
            => /\ UNCHANGED <<TreeVars, TableVars, SystemVars>>
               /\ emitted' = <<>>
       /\ (initialized /\ lastOp'.op = "init")
            => /\ UNCHANGED <<TreeVars, TableVars, SystemVars>>
               /\ emitted' = <<>>
       /\ (~initialized /\ lastOp'.op = "init")
            => /\ UNCHANGED <<WidgetVars, TableVars>>
               /\ initialized' /\ listening'
               /\ liveRegion' = "" /\ openDropdowns' = {}
               /\ emitted' = <<>>
               /\ \A d \in Dropdowns \ openDropdowns :
                      /\ triggerExpanded'[d] = triggerExpanded[d]
                      /\ dropdownExpanded'[d] = dropdownExpanded[d]
                      /\ menuPosition'[d] = menuPosition[d]]_vars

\* on a destroyed system, a click on the trigger of a dropdown that was left
\* expanded has not closed it
C15_Witness ==
    /\ ~initialized
    /\ lastOp.op = "click"
    /\ lastOp.button = trigger["D1"]
    /\ Expanded("D1")
    /\ openDropdowns = {}
    /\ emitted = <<>>

(***************************************************************************)
(* Vocabulary of the duration properties.                                  *)
(***************************************************************************)
\* the duration attribute a countdown started by a click reads
DurationAttrOf(t) ==
    IF t.kind = "loading" THEN attrs[t.button].loadingDuration
    ELSE attrs[t.button].disableDuration

DefaultOf(t) ==
    IF t.kind = "loading" THEN DEFAULTS.loadingDuration ELSE DEFAULTS.disableDuration

Missing(value) == value = <<>> \/ value[1] = <<>>

\* the value is a decimal integer and nothing else: an optional sign and one
\* or more digits
IntegerLiteral(str) ==
    LET body == IF str # <<>> /\ Head(str) \in {"-", "+"} THEN Tail(str) ELSE str
    IN  body # <<>> /\ \A i \in 1..Len(body) : IsDigit(body[i])

InRange(n) == DEFAULTS.minDuration <= n /\ n <= DEFAULTS.maxDuration

(***************************************************************************)
(* C16 as stated: the countdown duration used is the behaviour's default   *)
(* (2000 for loading, 3000 for auto-disable) when the attribute value is   *)
(* missing, non-numeric or negative; otherwise the parsed non-negative     *)
(* integer clamped into [100, 30000]; so it is always within [100, 30000]. *)
(* A value is numeric when it is a decimal integer and nothing else.       *)
(***************************************************************************)
C16_DefaultUnlessInteger ==
    \A t \in timers :
        /\ InRange(t.delay)
        /\ (Missing(DurationAttrOf(t)) \/ ~IntegerLiteral(DurationAttrOf(t)[1]))
              => t.delay = DefaultOf(t)
        /\ (~Missing(DurationAttrOf(t)) /\ IntegerLiteral(DurationAttrOf(t)[1]))
              => t.delay =
                    IF parseInt(DurationAttrOf(t)[1])[1] < 0 THEN DefaultOf(t)
                    ELSE clamp(parseInt(DurationAttrOf(t)[1])[1],
                               DEFAULTS.minDuration, DEFAULTS.maxDuration)

(***************************************************************************)
(* C16 amended: the countdown duration used is the behaviour's default     *)
(* when the attribute is missing or empty, when no decimal digit follows   *)
(* its leading white space and optional sign, or when the integer read     *)
(* there is negative; otherwise it is that leading integer, whatever       *)
(* characters follow it, clamped into [100, 30000]; so it is always within *)
(* [100, 30000].                                                           *)
(***************************************************************************)
C16_DefaultUnlessLeadingInteger ==
    \A t \in timers :
        /\ InRange(t.delay)
        /\ t.delay =
              IF Missing(DurationAttrOf(t)) THEN DefaultOf(t)
              ELSE IF parseInt(DurationAttrOf(t)[1]) = <<>> THEN DefaultOf(t)
              ELSE IF parseInt(DurationAttrOf(t)[1])[1] < 0 THEN DefaultOf(t)
              ELSE IF parseInt(DurationAttrOf(t)[1])[1] < DEFAULTS.minDuration
                   THEN DEFAULTS.minDuration
              ELSE IF parseInt(DurationAttrOf(t)[1])[1] > DEFAULTS.maxDuration
                   THEN DEFAULTS.maxDuration
              ELSE parseInt(DurationAttrOf(t)[1])[1]

\* a loading countdown of 150 ms read from the attribute value "150ms"
C16_Witness ==
    \E t \in timers :
        /\ t.kind = "loading"
        /\ DurationAttrOf(t) = << <<"1", "5", "0", "m", "s">> >>
        /\ t.delay = 150

(***************************************************************************)
(* C17: setLoading called with an argument that is not a valid widget      *)
(* handle rejects its completion signal with a type error and changes no   *)
(* state: no widget attribute, no timer, no snapshot record and no         *)
(* announcement.                                                           *)
(***************************************************************************)
C17_InvalidHandleRejects ==
    [][(lastOp'.op = "setLoading" /\ lastOp'.button \notin Widgets)
        => /\ signal' = "TypeError"
           /\ UNCHANGED <<TreeVars, TableVars, SystemVars>>
           /\ pendingSignals' = pendingSignals
           /\ emitted' = <<>>]_vars

\* setLoading(null) was rejected while widget A was loading with its
\* countdown pending and an announcement scheduled
C17_Witness ==
    /\ lastOp.op = "setLoading"
    /\ lastOp.button = NoWidget
    /\ signal = "TypeError"
    /\ loadingClass["A"]
    /\ TimersOf("A") # {}
    /\ announceQ # <<>>

(***************************************************************************)
(* Vocabulary of the menu properties.                                      *)
(***************************************************************************)
\* the step looks up the items of the menu of d
LookupStep(d) == lookup' # <<>> /\ lookup'[1].menu = d

HasEntry(d) == dropdownItemCache[d] # <<>>

\* the time since the cache entry of d was stored
Age(d) == now - dropdownItemCache[d][1].timestamp

\* JavaScript index of the element that has focus, in a list
FocusIndex(items) == indexOf(items, activeElement)

(***************************************************************************)
(* C18: an item lookup made less than the freshness window (5000 ms)       *)
(* after the cache entry was stored returns the cached list, even if the   *)
(* menu's items changed in between, and leaves the entry as it is (its age *)
(* is not extended); a lookup made when the entry's age has reached the    *)
(* window, or with no entry, returns the menu's current items and stores   *)
(* them with the current time.                                             *)
(***************************************************************************)
C18_CacheWithinWindow ==
    [][\A d \in Dropdowns :
         LookupStep(d) =>
            IF HasEntry(d) /\ Age(d) < DEFAULTS.cacheMaxAge
            THEN /\ lookup'[1].items = dropdownItemCache[d][1].items
                 /\ dropdownItemCache'[d] = dropdownItemCache[d]
            ELSE /\ lookup'[1].items = querySelectorAllItems(d)
                 /\ dropdownItemCache'[d] =
                        <<[items |-> querySelectorAllItems(d), timestamp |-> now]>>]_vars

\* a lookup 2500 ms after the entry was stored returned the cached list of
\* three items while the menu holds two, and the entry kept its timestamp
C18_Witness ==
    /\ lookup # <<>>
    /\ lookup[1].menu = "D1"
    /\ Len(lookup[1].items) = 3
    /\ menuSize["D1"] = 2
    /\ HasEntry("D1")
    /\ Age("D1") = 2500

(***************************************************************************)
(* C19 as stated: in an open dropdown with n >= 1 items, ArrowDown moves   *)
(* focus from item i to item (i+1) mod n and ArrowUp from item i to item   *)
(* (i-1) mod n; when focus is on no item (on the trigger) ArrowDown        *)
(* focuses the first item and ArrowUp the last; ArrowUp on a closed        *)
(* dropdown changes neither focus nor open state.  The items are the items *)
(* the menu holds.                                                         *)
(***************************************************************************)
C19_ArrowTarget(items, key) ==
    LET n == Len(items)
        i == FocusIndex(items)
    IN  IF key = "ArrowDown" THEN items[((i + 1) % n) + 1]
        ELSE IF i >= 0 THEN items[((i + n - 1) % n) + 1]
        ELSE items[n]

\* the dropdown that holds the focused element is open before the step
C19_OpenBefore(d) ==
    /\ closestDropdown(activeElement) = d
    /\ triggerExpanded[d] = "true"
    /\ listening

C19_ArrowsCycleOverMenuItems ==
    [][\A d \in Dropdowns : \A key \in {"ArrowDown", "ArrowUp"} :
         /\ (KeyStep(key) /\ C19_OpenBefore(d) /\ menuSize[d] >= 1)
               => activeElement' = C19_ArrowTarget(querySelectorAllItems(d), key)
         /\ (KeyStep("ArrowUp") /\ closestDropdown(activeElement) = d
                 /\ triggerExpanded[d] # "true")
               => /\ activeElement' = activeElement
                  /\ UNCHANGED <<DropdownVars, openDropdowns>>]_vars

(***************************************************************************)
(* C19 amended: the arrows cycle over the list the item lookup returns,    *)
(* which within the freshness window is the cached list and not the items  *)
(* the menu holds now.  In an open dropdown whose looked-up list has       *)
(* n >= 1 items, ArrowDown targets item (i+1) mod n of that list and       *)
(* ArrowUp item (i-1) mod n, where i is the position of the focused        *)
(* element in the list; when the focused element is not in the list (the   *)
(* trigger, or an item added since), ArrowDown targets the first and       *)
(* ArrowUp the last; focus moves to the target unless the target has left  *)
(* the menu, in which case focus stays.  ArrowUp on a closed dropdown      *)
(* changes neither focus nor open state.                                   *)
(***************************************************************************)
C19_ArrowsCycleOverLookedUpItems ==
    [][\A d \in Dropdowns : \A key \in {"ArrowDown", "ArrowUp"} :
         /\ (KeyStep(key) /\ C19_OpenBefore(d))
               => /\ LookupStep(d)
                  /\ Len(lookup'[1].items) >= 1
                       => activeElement' =
                            IF isElementConnected(C19_ArrowTarget(lookup'[1].items, key))
                            THEN C19_ArrowTarget(lookup'[1].items, key)
                            ELSE activeElement
                  /\ Len(lookup'[1].items) = 0 => activeElement' = activeElement
                  /\ UNCHANGED <<DropdownVars, openDropdowns>>
         /\ (KeyStep("ArrowUp") /\ closestDropdown(activeElement) = d
                 /\ triggerExpanded[d] # "true")
               => /\ activeElement' = activeElement
                  /\ UNCHANGED <<DropdownVars, openDropdowns>>]_vars

\* ArrowDown on the last of three items wrapped focus to the first
C19_Witness ==
    /\ lastOp.op = "keydown"
    /\ lastOp.arg = "ArrowDown"
    /\ lastOp.button = "D1.item2"
    /\ activeElement = "D1.item0"
    /\ menuSize["D1"] = 3
    /\ triggerExpanded["D1"] = "true"

(***************************************************************************)
(* C20: in every reachable state each widget has at most one pending timer *)
(* per behaviour kind, and the timer side-table holds an entry for a       *)
(* widget exactly when a timer for that widget is pending (the entry is    *)
(* that timer's id); a timer replaced by a newer start on the same widget  *)
(* never fires: the start removes it from the pending timers, and a timer  *)
(* that becomes pending has an id never used before, so a removed timer    *)
(* does not become pending again.                                          *)
(***************************************************************************)
\* the behaviour a timer belongs to
BehaviourOf(t) == IF t.kind = "autoDisable" THEN "autoDisable" ELSE "loading"

\* the step starts a countdown on w
C20_StartStep(w) == \E t \in timers' \ timers : t.button = w

C20_OneTimerPerWidgetAndKind ==
    [][\A w \in Widgets :
         /\ \A k \in {"loading", "autoDisable"} :
               Cardinality({t \in timers' : t.button = w /\ BehaviourOf(t) = k}) <= 1
         /\ buttonTimeouts'[w] # 0 <=> \E t \in timers' : t.button = w
         /\ \A t \in timers' : t.button = w => t.id = buttonTimeouts'[w]
         /\ C20_StartStep(w) => timers \cap timers' \cap TimersOf(w) = {}
         /\ \A t \in timers' \ timers : t.id >= nextTimerId /\ nextTimerId' > t.id]_vars

\* a click started the auto-disable countdown of a widget and thereby
\* replaced the loading countdown the same click had started: one timer is
\* pending, the second that was created
C20_Witness ==
    /\ lastOp.op = "click"
    /\ lastOp.button = "A"
    /\ invoked = <<"loading", "autoDisable">>
    /\ \E t \in timers : t.kind = "autoDisable" /\ t.id = 2 /\ timers = {t}
    /\ buttonTimeouts["A"] = 2
    /\ nextTimerId = 3

(***************************************************************************)
(* Vocabulary of the router properties.                                    *)
(***************************************************************************)
\* the step is a click the listener handles, on the target
ClickStep(target) == lastOp'.op = "click" /\ lastOp'.button = target /\ listening

\* the dropdown is closed: expanded=false on trigger and container, no
\* positioning marker, not tracked
Closed(d) ==
    /\ triggerExpanded[d] = "false"
    /\ dropdownExpanded[d] = "false"
    /\ menuPosition[d] = "absent"
    /\ d \notin openDropdowns

\* the click target is a disabled widget
IsDisabled(target) ==
    target \in Widgets /\ (disabled[target] \/ ariaDisabled[target])

\* the dropdown keeps its state over the step
DropdownUnchanged(d) ==
    /\ triggerExpanded'[d] = triggerExpanded[d]
    /\ dropdownExpanded'[d] = dropdownExpanded[d]
    /\ menuPosition'[d] = menuPosition[d]
    /\ (d \in openDropdowns') = (d \in openDropdowns)

(***************************************************************************)
(* C21 as stated: on a click whose target is outside every dropdown, all   *)
(* tracked open dropdowns are closed before any widget controller runs,    *)
(* also when the clicked widget is disabled or when no widget encloses the *)
(* target; a click whose target is inside a dropdown does not trigger the  *)
(* dismissal (a click on an item or on a widget standing in a dropdown     *)
(* leaves every other dropdown as it is).                                  *)
(***************************************************************************)
C21_OutsideClickClosesAllTracked ==
    [][\A target \in DismissTargets :
         ClickStep(target) =>
            IF closestDropdown(target) = NoWidget
            THEN /\ dismissed' = <<0>>
                 /\ \A d \in openDropdowns : Closed(d)'
            ELSE /\ dismissed' = <<>>
                 /\ target # trigger[closestDropdown(target)]
                      => \A d \in Dropdowns \ {closestDropdown(target)} :
                             DropdownUnchanged(d)]_vars

(***************************************************************************)
(* C21 amended: the dismissal closes the tracked dropdowns that are        *)
(* attached and only drops the detached ones from the open-set, leaving    *)
(* their expanded attributes as they are.                                  *)
(***************************************************************************)
C21_OutsideClickClosesAttachedTracked ==
    [][\A target \in DismissTargets :
         ClickStep(target) =>
            IF closestDropdown(target) = NoWidget
            THEN /\ dismissed' = <<0>>
                 /\ openDropdowns' = {}
                 /\ \A d \in openDropdowns :
                        IF attached[d] THEN Closed(d)'
                        ELSE /\ triggerExpanded'[d] = triggerExpanded[d]
                             /\ dropdownExpanded'[d] = dropdownExpanded[d]
                             /\ menuPosition'[d] = menuPosition[d]
                 /\ \A d \in Dropdowns \ openDropdowns : DropdownUnchanged(d)
            ELSE /\ dismissed' = <<>>
                 /\ target # trigger[closestDropdown(target)]
                      => \A d \in Dropdowns \ {closestDropdown(target)} :
                             DropdownUnchanged(d)]_vars

\* a click on the disabled widget A, outside every dropdown, has closed D1
\* while the frame callback of its open is still pending, and no controller ran
C21_Witness ==
    /\ lastOp.op = "click"
    /\ lastOp.button = "A"
    /\ attrs["A"].dropdown = NoWidget
    /\ attrs["A"].expand
    /\ disabled["A"]
    /\ dismissed = <<0>>
    /\ invoked = <<>>
    /\ frameQ = <<"D1">>
    /\ Closed("D1")

\* the widget's timers and its snapshot are unchanged over the step
TablesUnchanged(w) ==
    /\ TimersOf(w)' = TimersOf(w)
    /\ buttonTimeouts'[w] = buttonTimeouts[w]
    /\ buttonOriginalContent'[w] = buttonOriginalContent[w]

\* a click on the widget invoked no controller and changed nothing of it
NoControllerRan(w) ==
    /\ invoked' = <<>>
    /\ emitted' = <<>>
    /\ WidgetUnchanged(w)
    /\ TablesUnchanged(w)
    /\ announceQ' = announceQ
    /\ closestDropdown(w) # NoWidget => \A d \in Dropdowns : DropdownUnchanged(d)

(***************************************************************************)
(* C22 as stated: a click on a disabled widget (native disabled flag set,  *)
(* or disabled-state attribute true) invokes no controller: the pressed,   *)
(* busy, disabled and expanded state of the widget, its timers and its     *)
(* snapshot are unchanged and no domain event is emitted; this covers      *)
(* every click on a widget while it is in the loading state (it carries    *)
(* the loading class) or in the auto-disabled state (its auto-disable      *)
(* countdown is pending).                                                  *)
(***************************************************************************)
C22_DisabledLoadingOrAutoDisabledClickIsNoOp ==
    [][\A w \in Widgets :
         (/\ ClickStep(w)
          /\ \/ IsDisabled(w)
             \/ loadingClass[w]
             \/ \E t \in TimersOf(w) : t.kind = "autoDisable")
            => NoControllerRan(w)]_vars

(***************************************************************************)
(* C22 amended: a click on a disabled widget invokes no controller and     *)
(* changes nothing; this covers every click on a widget whose loading or   *)
(* auto-disable countdown is pending, but not every click on a widget in   *)
(* the loading state: a click on a loading widget that is no longer        *)
(* disabled invokes the controllers its markers name.                      *)
(***************************************************************************)
C22_DisabledClickIsNoOp ==
    [][\A w \in Widgets :
         /\ (ClickStep(w) /\ (IsDisabled(w) \/ TimersOf(w) # {}))
               => NoControllerRan(w)
         /\ (ClickStep(w) /\ ~IsDisabled(w) /\ loadingClass[w])
               => invoked' # <<>>]_vars

\* a click on widget A while its loading countdown was pending: no controller
\* ran and the countdown is still pending
C22_Witness ==
    /\ lastOp.op = "click"
    /\ lastOp.button = "A"
    /\ lastOp.wasLoading
    /\ attrs["A"].toggle /\ attrs["A"].expand
    /\ disabled["A"]
    /\ invoked = <<>>
    /\ \E t \in timers : t.kind = "loading" /\ t.button = "A"

\* the controllers the markers of the widget name, in the router's order
Applicable(w) ==
    (IF attrs[w].toggle THEN <<"toggle">> ELSE <<>>)
    \o (IF attrs[w].loadingText THEN <<"loading">> ELSE <<>>)
    \o (IF attrs[w].autoDisable THEN <<"autoDisable">> ELSE <<>>)
    \o (IF closestDropdown(w) # NoWidget THEN <<"dropdown">> ELSE <<>>)
    \o (IF attrs[w].expand THEN <<"expand">> ELSE <<>>)

(***************************************************************************)
(* C23: for a click on an enabled widget, every applicable controller is   *)
(* invoked exactly once, in the order toggle, loading, auto-disable,       *)
(* dropdown, expand; the markers alone decide which are applicable, so the *)
(* auto-disable and expand controllers act also when the loading           *)
(* controller of the same click has disabled the widget: the widget is     *)
(* auto-disabled, and its expanded state flips with one expand event.      *)
(***************************************************************************)
C23_ControllersInOrder ==
    [][\A w \in Widgets :
         (ClickStep(w) /\ ~IsDisabled(w)) =>
            /\ invoked' = Applicable(w)
            /\ attrs[w].toggle => Cardinality(Events("toggle", w)') = 1
            /\ attrs[w].autoDisable =>
                 /\ ariaDisabled'[w] /\ disabled'[w]
                 /\ \E t \in TimersOf(w)' : t.kind = "autoDisable"
            /\ attrs[w].expand =>
                 /\ ariaExpanded'[w] = String(ariaExpanded[w] # "true")
                 /\ Cardinality(Events("expand", w)') = 1
            /\ ~attrs[w].expand => ariaExpanded'[w] = ariaExpanded[w]]_vars

\* one click on the enabled widget A, which carries every marker and stands in
\* a dropdown, invoked the five controllers; the loading controller disabled
\* the widget and the later ones still acted
C23_Witness ==
    /\ lastOp.op = "click"
    /\ lastOp.button = "A"
    /\ ~lastOp.wasLoading
    /\ invoked = <<"toggle", "loading", "autoDisable", "dropdown", "expand">>
    /\ loadingClass["A"] /\ disabled["A"] /\ ariaDisabled["A"]
    /\ ariaPressed["A"] = "true"
    /\ ariaExpanded["A"] = "true"

(***************************************************************************)
(* C24 as stated: whenever a dropdown is closed its menu carries no        *)
(* positioning marker: a positioning step deferred to the next frame by an *)
(* earlier open never sets a marker on a dropdown that was closed before   *)
(* the frame callback ran.                                                 *)
(***************************************************************************)
C24_ClosedHasNoPositionMarker ==
    \A d \in Dropdowns : ~Expanded(d) => menuPosition[d] = "absent"

(***************************************************************************)
(* C25 as stated: the deferred initial focus of an open is applied only    *)
(* while that dropdown is still open: no frame callback and no focus timer *)
(* moves focus onto an item of the menu of a dropdown that is closed.      *)
(***************************************************************************)
C25_DeferredFocusOnlyWhileOpen ==
    [][\A d \in Dropdowns :
         (/\ lastOp'.op \in {"frame", "focusTimer"}
          /\ activeElement' # activeElement
          /\ indexOf(menuItems[d], activeElement') >= 0)
            => Expanded(d)']_vars

(***************************************************************************)
(* Vocabulary of the selection property.                                   *)
(***************************************************************************)
\* the step selects the item: a click on it, or Enter or Space pressed on it
SelectStep(item) ==
    \/ ClickStep(item)
    \/ /\ lastOp'.op = "keydown" /\ lastOp'.button = item /\ listening
       /\ lastOp'.arg \in SelectKeys

\* what a selection leaves behind, in a state the handlers produce: the
\* dropdowns, the open-set, the focus and the events
Outcome(s) ==
    <<s.triggerExpanded, s.dropdownExpanded, s.menuPosition, s.openDropdowns,
      s.activeElement, s.emitted, s.frameQ, s.focusQ>>

C27_LastWriteWins ==
    [][(lastOp'.op = "announce" /\ liveRegion # "none")
          => liveRegion' = announceQ[Len(announceQ)]]_vars

(***************************************************************************)
(* C28: destroy() does not cancel in-flight loading or auto-disable        *)
(* timers: it leaves the pending timers, the timer table and the snapshots *)
(* as they are, and a timer that fires while the system is destroyed       *)
(* restores the widget if the widget is attached (a loading timer restores *)
(* the snapshot, clears busy and emits one loadingComplete; an             *)
(* auto-disable timer clears disabled) and only discards its record if     *)
(* the widget is detached.                                                 *)
(***************************************************************************)
C28_TeardownKeepsTimers ==
    [][/\ lastOp'.op = "destroy"
            => UNCHANGED <<timers, buttonTimeouts, buttonOriginalContent, WidgetVars>>
       /\ \A w \in Widgets :
            (ExpiryStep(w) /\ ~initialized) =>
               /\ buttonTimeouts'[w] = 0
               /\ TimersOf(w)' = {}
               /\ liveRegion' = "none" /\ announceQ' = announceQ
               /\ IF ~attached[w]
                  THEN /\ WidgetUnchanged(w)
                       /\ emitted' = <<>>
                       /\ lastOp'.arg # "autoDisable" => buttonOriginalContent'[w] = <<>>
                  ELSE IF lastOp'.arg = "autoDisable"
                  THEN /\ ~disabled'[w] /\ ~ariaDisabled'[w]
                       /\ emitted' = <<>>
                  ELSE /\ ~loadingClass'[w]
                       /\ ariaBusy'[w] = "false"
                       /\ buttonOriginalContent'[w] = <<>>
                       /\ buttonOriginalContent[w] # <<>> =>
                            /\ disabled'[w] = buttonOriginalContent[w][1].disabled
                            /\ innerHTML'[w] = buttonOriginalContent[w][1].innerHTML
                       /\ emitted' = <<[target |-> w, name |-> "loadingComplete",
                                        detail |-> <<>>]>>]_vars

\* the loading timer of the attached widget A has fired on a destroyed system:
\* the widget is restored and loadingComplete was emitted
C28_Witness ==
    /\ ~initialized
    /\ liveRegion = "none"
    /\ lastOp.op = "expire"
    /\ lastOp.button = "A"
    /\ lastOp.arg = "loading"
    /\ attached["A"]
    /\ ~loadingClass["A"]
    /\ ariaBusy["A"] = "false"
    /\ emitted = <<[target |-> "A", name |-> "loadingComplete", detail |-> <<>>]>>

(***************************************************************************)
(* Vocabulary of the re-entry property.                                    *)
(***************************************************************************)
\* the loading session of the widget is untouched by the step: the snapshot,
\* the busy state, the markup, and no announcement is scheduled
SessionUnchanged(w) ==
    /\ buttonOriginalContent'[w] = buttonOriginalContent[w]
    /\ loadingClass'[w] = loadingClass[w]
    /\ ariaBusy'[w] = ariaBusy[w]
    /\ innerHTML'[w] = innerHTML[w]
    /\ announceQ' = announceQ
    /\ emitted' = <<>>

(***************************************************************************)
(* C29 as stated: a click-triggered loading start on a widget that is      *)
(* already in the loading state is suppressed with no re-entry: the        *)
(* pending timer, the stored snapshot and the widget's busy and disabled   *)
(* state are unchanged and no new announcement is scheduled, also when the *)
(* widget was re-enabled by an auto-disable expiry while still loading.    *)
(***************************************************************************)
C29_ClickOnLoadingChangesNothing ==
    [][\A w \in Widgets :
         (ClickStep(w) /\ loadingClass[w] /\ attrs[w].loadingText) =>
            /\ SessionUnchanged(w)
            /\ TablesUnchanged(w)
            /\ disabled'[w] = disabled[w]]_vars

(***************************************************************************)
(* C29 amended: the loading controller does not re-enter: the snapshot,    *)
(* the busy state and the markup are unchanged and no announcement is      *)
(* scheduled.  While the widget is disabled the click changes nothing at   *)
(* all.  When the widget was re-enabled by an auto-disable expiry while    *)
(* still loading, the auto-disable controller of the same click runs after *)
(* the suppressed loading start: it disables the widget again and starts   *)
(* an auto-disable countdown.                                              *)
(***************************************************************************)
C29_LoadingDoesNotReEnter ==
    [][\A w \in Widgets :
         (ClickStep(w) /\ loadingClass[w] /\ attrs[w].loadingText) =>
            /\ SessionUnchanged(w)
            /\ IF IsDisabled(w)
               THEN /\ invoked' = <<>>
                    /\ TablesUnchanged(w)
                    /\ disabled'[w] = disabled[w]
                    /\ ariaDisabled'[w] = ariaDisabled[w]
               ELSE /\ invoked' = Applicable(w)
                    /\ IF attrs[w].autoDisable
                       THEN /\ disabled'[w] /\ ariaDisabled'[w]
                            /\ \E t \in timers' :
                                 /\ t.kind = "autoDisable" /\ t.id = nextTimerId
                                 /\ TimersOf(w)' = {t}
                       ELSE /\ TablesUnchanged(w)
                            /\ disabled'[w] = disabled[w]
                            /\ ariaDisabled'[w] = ariaDisabled[w]]_vars

\* a click on widget A, loading and re-enabled by the auto-disable expiry: the
\* loading start was suppressed, the snapshot is kept, and the auto-disable
\* controller disabled the widget again
C29_Witness ==
    /\ lastOp.op = "click"
    /\ lastOp.button = "A"
    /\ lastOp.wasLoading
    /\ invoked = <<"loading", "autoDisable">>
    /\ loadingClass["A"]
    /\ ariaBusy["A"] = "true"
    /\ buttonOriginalContent["A"] # <<>>
    /\ announceQ = <<>>
    /\ disabled["A"] /\ ariaDisabled["A"]

====
